---- MODULE Spec2Model ----
(***************************************************************************)
(* RFID reader serial protocol: frame scanner (src/utils/protocol.ts) and  *)
(* the orchestration state machines of the App component (firmware update, *)
(* single cycle).                                                          *)
(*                                                                         *)
(* Conventions.  A Uint8Array is a sequence of numbers 0..255, indexed     *)
(* from 0 through At().  A JavaScript string is the sequence of its        *)
(* character codes ('0001' is <<48,48,48,49>>).  Reading past the end of   *)
(* an array gives Undefined.  Wall-clock time is abstracted: a wait whose  *)
(* deadline is in the future may either poll again or find the deadline    *)
(* passed.                                                                 *)
(***************************************************************************)
EXTENDS Integers, Sequences, FiniteSets, TLC

\* ------------------------------------------------------------------ bounds
MaxPages == 2
MaxRuns == 2
MaxBuf == 20
MaxTimers == 1
MaxFrames == 3
MaxScanLen == 7
MaxCycles == 3
MaxStressFrames == 2
MaxPayload == 65514
MaxImagePages == 3
MaxPieces == 2

\* ------------------------------------------------------- program constants
PageSize == 512
VerifyAttempts == 3
DeviceId == 1
ResultsCap == 1000

Undefined == -1

\* ---------------------------------------------------------- JS primitives
Min(a, b) == IF a < b THEN a ELSE b
Max(a, b) == IF a > b THEN a ELSE b

\* data[i] of a Uint8Array (0-based); undefined when out of range.
At(data, i) == IF i >= 0 /\ i < Len(data) THEN data[i + 1] ELSE Undefined

\* ToInt32 of an array element inside a bit operation: undefined counts as 0.
U(x) == IF x = Undefined THEN 0 ELSE x

\* Array.prototype.slice(a, b): negative indices count from the end, both ends
\* are clamped to the array.
Slice(data, a, b) ==
  LET n  == Len(data)
      lo == IF a < 0 THEN Max(n + a, 0) ELSE Min(a, n)
      hi == IF b < 0 THEN Max(n + b, 0) ELSE Min(b, n)
  IN  IF hi <= lo THEN << >> ELSE [k \in 1..(hi - lo) |-> data[lo + k]]

\* One hexadecimal digit, upper case, as a character code.
HexDigit(d) == IF d < 10 THEN 48 + d ELSE 55 + d

\* b.toString(16).padStart(2, '0').toUpperCase()
ByteToHex(b) == << HexDigit(b \div 16), HexDigit(b % 16) >>

RECURSIVE uint8ArrayToHex(_)
uint8ArrayToHex(data) ==
  IF data = << >> THEN << >>
  ELSE IF Len(data) = 1 THEN ByteToHex(data[1])
  ELSE ByteToHex(data[1]) \o << 32 >> \o uint8ArrayToHex(Tail(data))

\* The characters of 0..255 that \s matches.
WhiteSpace == {9, 10, 11, 12, 13, 32, 160}

\* s.replace(/\s/g, '')
StripSpaces(s) == SelectSeq(s, LAMBDA c : c \notin WhiteSpace)

\* Fault variant of HexCode: the spaces between the bytes stay.
HexCode_KeepsSpaces(data) == uint8ArrayToHex(data)

\* uint8ArrayToHex(...).replace(/\s/g, ''): the error code of a packet.
HexCode(data) == StripSpaces(uint8ArrayToHex(data))

\* parseInt of one hexadecimal digit character.
HexVal(c) == IF c >= 48 /\ c <= 57 THEN c - 48 ELSE c - 55

\* hexToAscii: the characters whose codes the hex pairs spell.
RECURSIVE hexToAscii(_)
hexToAscii(hexStr) ==
  LET hex == StripSpaces(hexStr)
  IN  IF Len(hex) < 2 THEN << >>
      ELSE << 16 * HexVal(hex[1]) + HexVal(hex[2]) >> \o hexToAscii(SubSeq(hex, 3, Len(hex)))

\* The strings the code compares error codes with.
NA == << 78, 47, 65 >>
OK0001 == << 48, 48, 48, 49 >>
OK0000 == << 48, 48, 48, 48 >>

\* ---------------------------------------------------------------- scanner
\* Fault variant of BlankPacket: the id is read one byte late.
BlankPacket_IdAt5(packet, i) ==
  [ cmd |-> At(packet, 3), id |-> At(packet, 5), errorCode |-> NA,
    raw |-> uint8ArrayToHex(packet), status |-> Undefined, count |-> Undefined,
    epc |-> << >>, userData |-> << >>, fwVersion |-> << >>,
    updateCount |-> Undefined, currentPacketNum |-> Undefined, at |-> i ]

\* A DecodedPacket.  Optional numeric fields that were not set are Undefined,
\* optional strings that were not set are the empty string (the callers only
\* test them for truthiness).  at is the scan cursor i at which the packet was
\* sliced out: it is not a field of DecodedPacket, it names the slice.
BlankPacket(packet, i) ==
  [ cmd |-> At(packet, 3), id |-> At(packet, 4), errorCode |-> NA,
    raw |-> uint8ArrayToHex(packet), status |-> Undefined, count |-> Undefined,
    epc |-> << >>, userData |-> << >>, fwVersion |-> << >>,
    updateCount |-> Undefined, currentPacketNum |-> Undefined, at |-> i ]

Be32(packet, k) ==
  ((U(At(packet, k)) * 256 + U(At(packet, k + 1))) * 256 + U(At(packet, k + 2))) * 256
    + U(At(packet, k + 3))

\* Fault variant of Decode64: the EPC and the trailing fields are read one byte
\* early.
Decode64_OneByteEarly(d, packet) ==
  LET n == Len(packet)
      status == At(packet, 6)
      d1 == [d EXCEPT !.status = status]
  IN  IF status = 1 THEN
        IF n >= 14
          THEN [d1 EXCEPT !.count = Be32(packet, 6),
                          !.errorCode = HexCode(Slice(packet, 10, 12))]
          ELSE d1
      ELSE IF status = 0 THEN
        [d1 EXCEPT !.count = Be32(packet, n - 8),
                   !.errorCode = HexCode(Slice(packet, n - 4, n - 2)),
                   !.epc = IF n - 17 > 0 THEN uint8ArrayToHex(Slice(packet, 8, 8 + (n - 17)))
                                         ELSE << >>]
      ELSE d1

Decode64(d, packet) ==
  LET n == Len(packet)
      status == At(packet, 6)
      d1 == [d EXCEPT !.status = status]
  IN  IF status = 1 THEN
        IF n >= 14
          THEN [d1 EXCEPT !.count = Be32(packet, 7),
                          !.errorCode = HexCode(Slice(packet, 11, 13))]
          ELSE d1
      ELSE IF status = 0 THEN
        [d1 EXCEPT !.count = Be32(packet, n - 7),
                   !.errorCode = HexCode(Slice(packet, n - 3, n - 1)),
                   !.epc = IF n - 17 > 0 THEN uint8ArrayToHex(Slice(packet, 9, 9 + (n - 17)))
                                         ELSE << >>]
      ELSE d1

Decode61(d, packet) ==
  LET n == Len(packet)
  IN  IF n >= 7
        THEN [d EXCEPT !.errorCode = HexCode(Slice(packet, n - 3, n - 1)),
                       !.epc = IF n > 10 THEN uint8ArrayToHex(Slice(packet, 9, n - 3))
                                         ELSE << >>]
        ELSE d

Decode63(d, packet) ==
  LET n == Len(packet)
  IN  IF n >= 9
        THEN [d EXCEPT !.errorCode = HexCode(Slice(packet, n - 3, n - 1)),
                       !.userData = IF n > 12 THEN uint8ArrayToHex(Slice(packet, 9, n - 3))
                                              ELSE << >>]
        ELSE d

Decode70(d, packet) ==
  IF Len(packet) >= 9 THEN [d EXCEPT !.errorCode = HexCode(Slice(packet, 6, 8))] ELSE d

Decode35(d, packet) ==
  LET n == Len(packet)
  IN  [d EXCEPT !.errorCode = HexCode(Slice(packet, n - 3, n - 1)),
                !.fwVersion = hexToAscii(uint8ArrayToHex(Slice(packet, 5, n - 3)))]

DecodeF0(d, packet) ==
  LET d1 == [d EXCEPT !.errorCode = OK0001]
  IN  IF Len(packet) >= 10 THEN [d1 EXCEPT !.updateCount = Be32(packet, 5)] ELSE d1

DecodeF1(d, packet) ==
  IF Len(packet) >= 9
    THEN [d EXCEPT !.currentPacketNum = U(At(packet, 5)) * 256 + U(At(packet, 6)),
                   !.errorCode = HexCode(Slice(packet, 7, 9))]
    ELSE d

DecodeF2(d, packet) ==
  IF Len(packet) >= 8 THEN [d EXCEPT !.errorCode = HexCode(Slice(packet, 5, 7))] ELSE d

DecodePacket(packet, i) ==
  LET d == BlankPacket(packet, i)
      cmd == d.cmd
  IN  IF cmd = 100 THEN Decode64(d, packet)
      ELSE IF cmd = 97 THEN Decode61(d, packet)
      ELSE IF cmd = 99 THEN Decode63(d, packet)
      ELSE IF cmd = 112 THEN Decode70(d, packet)
      ELSE IF cmd = 53 THEN Decode35(d, packet)
      ELSE IF cmd = 240 THEN DecodeF0(d, packet)
      ELSE IF cmd = 241 THEN DecodeF1(d, packet)
      ELSE IF cmd = 242 THEN DecodeF2(d, packet)
      ELSE d

\* Fault variant of ScanFrom: behind a frame the cursor moves one byte on.
RECURSIVE ScanFrom_StepsOne(_, _)
ScanFrom_StepsOne(buffer, i) ==
  IF i >= Len(buffer) THEN << >>
  ELSE IF At(buffer, i) = 8 /\ i + 3 <= Len(buffer)
          /\ i + (At(buffer, i + 1) * 256 + At(buffer, i + 2)) + 3 <= Len(buffer)
    THEN LET potentialEnd == i + (At(buffer, i + 1) * 256 + At(buffer, i + 2)) + 3
             packet == Slice(buffer, i, potentialEnd)
         IN  << DecodePacket(packet, i) >> \o ScanFrom_StepsOne(buffer, i + 1)
    ELSE ScanFrom_StepsOne(buffer, i + 1)

\* Fault variant of ScanFrom: the slice leaves out the last byte of the frame.
RECURSIVE ScanFrom_ShortSlice(_, _)
ScanFrom_ShortSlice(buffer, i) ==
  IF i >= Len(buffer) THEN << >>
  ELSE IF At(buffer, i) = 8 /\ i + 3 <= Len(buffer)
          /\ i + (At(buffer, i + 1) * 256 + At(buffer, i + 2)) + 3 <= Len(buffer)
    THEN LET potentialEnd == i + (At(buffer, i + 1) * 256 + At(buffer, i + 2)) + 3
             packet == Slice(buffer, i, potentialEnd - 1)
         IN  << DecodePacket(packet, i) >> \o ScanFrom_ShortSlice(buffer, i + Len(packet) + 1)
    ELSE ScanFrom_ShortSlice(buffer, i + 1)

\* The while loop of scanAllPackets from cursor i.  expectedCmd is accepted and
\* never read by the code.
RECURSIVE ScanFrom(_, _)
ScanFrom(buffer, i) ==
  IF i >= Len(buffer) THEN << >>
  ELSE IF At(buffer, i) = 8 /\ i + 3 <= Len(buffer)
          /\ i + (At(buffer, i + 1) * 256 + At(buffer, i + 2)) + 3 <= Len(buffer)
    THEN LET potentialEnd == i + (At(buffer, i + 1) * 256 + At(buffer, i + 2)) + 3
             packet == Slice(buffer, i, potentialEnd)
         IN  << DecodePacket(packet, i) >> \o ScanFrom(buffer, i + Len(packet))
    ELSE ScanFrom(buffer, i + 1)

scanAllPackets(buffer, expectedCmd) == ScanFrom(buffer, 0)

\* Array.prototype.find is modelled by SelectSeq: find returns the head of the
\* elements that satisfy the test, and undefined when there is none.

\* String.prototype.trim(), for the white space the model's inputs hold.
RECURSIVE TrimLeft(_)
TrimLeft(s) == IF s # << >> /\ Head(s) = 32 THEN TrimLeft(Tail(s)) ELSE s

RECURSIVE TrimRight(_)
TrimRight(s) ==
  IF s # << >> /\ s[Len(s)] = 32 THEN TrimRight(SubSeq(s, 1, Len(s) - 1)) ELSE s

Trim(s) == TrimRight(TrimLeft(s))

\* String.prototype.toUpperCase() on ASCII.
ToUpperCase(s) == [k \in 1..Len(s) |-> IF s[k] >= 97 /\ s[k] <= 122 THEN s[k] - 32 ELSE s[k]]

\* s.replace(/^V/, '')
StripLeadingV(s) == IF s # << >> /\ Head(s) = 86 THEN Tail(s) ELSE s

\* Fault variant of CeilDiv: an empty image counts as one page.
CeilDiv_AtLeastOne(a, b) == IF a = 0 THEN 1 ELSE (a + b - 1) \div b

\* Math.ceil(a / b) and Math.floor(a / b * 100) for naturals.
CeilDiv(a, b) == (a + b - 1) \div b
Percent(i, total) == (i * 100) \div total

\* --------------------------------------------------------- frame builders
\* a ^ b on numbers 0..255.
RECURSIVE BitXor(_, _)
BitXor(a, b) ==
  IF a = 0 THEN b
  ELSE IF b = 0 THEN a
  ELSE ((a + b) % 2) + 2 * BitXor(a \div 2, b \div 2)

\* calculateXOR, data.reduce((acc, byte) => acc ^ byte, 0).  ^ is associative:
\* the array is folded by halves, which gives the value of the fold from the
\* left.
RECURSIVE XorRange(_, _, _)
XorRange(data, lo, hi) ==
  IF lo > hi THEN 0
  ELSE IF lo = hi THEN data[lo]
  ELSE LET mid == (lo + hi) \div 2
       IN  BitXor(XorRange(data, lo, mid), XorRange(data, mid + 1, hi))

\* Fault variant of calculateXOR: the fold leaves out the first byte.
calculateXOR_SkipsFirst(data) == XorRange(data, 2, Len(data))

calculateXOR(data) == XorRange(data, 1, Len(data))

\* x & 0xFF and x >> k, for x in the range of a 32-bit integer.
Byte(x) == x % 256
Shr(x, k) == x \div (2 ^ k)

\* packet[n - 1] = calculateXOR(packet.slice(0, n - 1)), the last statement of
\* every builder.
WithChecksum(body) == Append(body, calculateXOR(body))

\* parseInt(s, 16): leading white space, a sign and a 0x prefix are skipped,
\* the digits up to the first character that is none are read; NaN when there
\* is no digit.
IsHexDigit(c) == (c >= 48 /\ c <= 57) \/ (c >= 65 /\ c <= 70) \/ (c >= 97 /\ c <= 102)
DigitVal(c) == IF c <= 57 THEN c - 48 ELSE IF c <= 70 THEN c - 55 ELSE c - 87

RECURSIVE SkipWhite(_)
SkipWhite(s) == IF s # << >> /\ Head(s) \in WhiteSpace THEN SkipWhite(Tail(s)) ELSE s

RECURSIVE HexValue(_)
HexValue(s) ==
  IF s = << >> THEN 0
  ELSE 16 * HexValue(SubSeq(s, 1, Len(s) - 1)) + DigitVal(s[Len(s)])

parseInt16(s) ==
  LET t == SkipWhite(s)
      signed == t # << >> /\ Head(t) \in {43, 45}
      u == IF signed THEN Tail(t) ELSE t
      v == IF Len(u) >= 2 /\ u[1] = 48 /\ u[2] \in {88, 120} THEN SubSeq(u, 3, Len(u)) ELSE u
      stops == { k \in 1..Len(v) : ~IsHexDigit(v[k]) }
      digits == IF stops = { } THEN Len(v)
                ELSE (CHOOSE k \in stops : \A j \in stops : k <= j) - 1
      val == HexValue(SubSeq(v, 1, digits))
  IN  IF digits = 0 THEN [nan |-> TRUE, val |-> 0]
      ELSE [nan |-> FALSE, val |-> IF signed /\ Head(t) = 45 THEN 0 - val ELSE val]

\* p || 0, and the value a Uint8Array element takes when p is stored in it.
OrZero(p) == IF p.nan THEN 0 ELSE p.val
ToUint8(p) == IF p.nan THEN 0 ELSE p.val % 256

\* s.match(/.{1,2}/g) on a string without line breaks: pairs of characters,
\* the last one single when the length is odd; no match gives the empty list.
Pairs(s) == [k \in 1..CeilDiv(Len(s), 2) |-> SubSeq(s, 2 * k - 1, Min(2 * k, Len(s)))]

\* Fault variant of build64HRequest: the timeout is written low byte first.
build64HRequest_TimeoutLowFirst(id, antenna, power, timeoutMs, maxRecords) ==
  LET count == IF maxRecords > 0 THEN maxRecords ELSE 0 - 1
  IN  WithChecksum(<< 128, 0, 14, 100, Byte(id), Byte(antenna),
                      Byte(Shr(power, 8)), Byte(power),
                      Byte(timeoutMs), Byte(Shr(timeoutMs, 8)),
                      Byte(Shr(timeoutMs, 16)), Byte(Shr(timeoutMs, 24)),
                      Byte(Shr(count, 24)), Byte(Shr(count, 16)),
                      Byte(Shr(count, 8)), Byte(count) >>)

\* Fault variant of build64HRequest: a record count of 0 is written as it is.
build64HRequest_NoSentinel(id, antenna, power, timeoutMs, maxRecords) ==
  LET count == IF maxRecords = Undefined THEN 0 ELSE maxRecords
  IN  WithChecksum(<< 128, 0, 14, 100, Byte(id), Byte(antenna),
                      Byte(Shr(power, 8)), Byte(power),
                      Byte(Shr(timeoutMs, 24)), Byte(Shr(timeoutMs, 16)),
                      Byte(Shr(timeoutMs, 8)), Byte(timeoutMs),
                      Byte(Shr(count, 24)), Byte(Shr(count, 16)),
                      Byte(Shr(count, 8)), Byte(count) >>)

build64HRequest(id, antenna, power, timeoutMs, maxRecords) ==
  LET count == IF maxRecords > 0 THEN maxRecords
               ELSE 0 - 1  \* 0xFFFFFFFF as the 32-bit integer >> and & read
  IN  WithChecksum(<< 128, 0, 14, 100, Byte(id), Byte(antenna),
                      Byte(Shr(power, 8)), Byte(power),
                      Byte(Shr(timeoutMs, 24)), Byte(Shr(timeoutMs, 16)),
                      Byte(Shr(timeoutMs, 8)), Byte(timeoutMs),
                      Byte(Shr(count, 24)), Byte(Shr(count, 16)),
                      Byte(Shr(count, 8)), Byte(count) >>)

build61HRequest(id, antenna) == WithChecksum(<< 128, 0, 4, 97, Byte(id), Byte(antenna) >>)

build63HRequest(id, antenna, addrHex, lenWord) ==
  LET addr == OrZero(parseInt16(addrHex))
  IN  WithChecksum(<< 128, 0, 7, 99, Byte(id), Byte(antenna),
                      Byte(Shr(addr, 8)), Byte(addr), Byte(lenWord) >>)

build35HRequest(id) == WithChecksum(<< 128, 0, 3, 53, Byte(id) >>)

buildF0HRequest(id) == WithChecksum(<< 128, 0, 3, 240, Byte(id) >>)

\* Fault variant of buildF1HRequest: the page counter is written low byte first.
buildF1HRequest_CountLowFirst(id, count, data512) ==
  IF 7 + Len(data512) > 520
    THEN [threw |-> TRUE, frame |-> << >>]
    ELSE [threw |-> FALSE,
          frame |-> WithChecksum(
                      << 128, 2, 5, 241, Byte(id), Byte(count), Byte(Shr(count, 8)) >>
                      \o [k \in 1..512 |-> IF k <= Len(data512) THEN data512[k] ELSE 0])]

\* buildF1HRequest.  packet.set(data512, 7) throws a RangeError when the data
\* do not fit behind offset 7 of the 520 bytes; the checksum is then written
\* over offset 519.
buildF1HRequest(id, count, data512) ==
  IF 7 + Len(data512) > 520
    THEN [threw |-> TRUE, frame |-> << >>]
    ELSE [threw |-> FALSE,
          frame |-> WithChecksum(
                      << 128, 2, 5, 241, Byte(id), Byte(Shr(count, 8)), Byte(count) >>
                      \o [k \in 1..512 |-> IF k <= Len(data512) THEN data512[k] ELSE 0])]

buildF2HRequest(id) == WithChecksum(<< 128, 0, 3, 242, Byte(id) >>)

build70HRequest(id, antenna, power, addrHex, lenWord, dataHex) ==
  LET texts == Pairs(StripSpaces(dataHex))
      dataBytes == [k \in 1..Len(texts) |-> ToUint8(parseInt16(texts[k]))]
      packetLen == 22 + Len(dataBytes)
      addr == OrZero(parseInt16(addrHex))
  IN  WithChecksum(<< 128, Byte(Shr(packetLen, 8)), Byte(packetLen), 112, Byte(id),
                      Byte(antenna), 1, Byte(power), 255 >>
                   \o [k \in 1..12 |-> 0]
                   \o << Byte(Shr(addr, 8)), Byte(addr), Byte(lenWord) >>
                   \o dataBytes)

\* runFirmwareUpdate, lines 272 and 285-286: the number of pages and the data
\* block of page i.
\* Fault variant of TotalPages: the quotient is rounded down.
TotalPages_Floor(fileData) == Len(fileData) \div PageSize

TotalPages(fileData) == CeilDiv(Len(fileData), PageSize)

PageChunk(fileData, i) ==
  LET part == Slice(fileData, (i - 1) * PageSize, i * PageSize)
  IN  [k \in 1..PageSize |-> IF k <= Len(part) THEN part[k] ELSE 0]

\* ------------------------------------------------------------------ state
VARIABLES
  masterBuffer,     \* masterBufferRef.current
  stopRequested,    \* stopRequestedRef.current
  updatePaused,     \* isUpdatePaused, mirrored by updatePausedRef.current
  isUpdating,
  isConnected,
  portWritable,     \* port.writable is not null
  updateProgress,
  selectedFileLen,  \* selectedFile: the byte length of the image
  fileVersion,
  nRuns,            \* calls of runFirmwareUpdate made so far
  resetTimers,      \* pending timers of lines 372-375, counted up to MaxTimers
  run,              \* the activation record of each call
  test,             \* the activation record of runSingleTest
  rev,              \* which revision of the component runs: "part_000" or "App"
  isTesting,
  summaryStats,     \* App.tsx only: the counters of processTestResult
  results,          \* the statuses of the recorded results, newest first
  stress,           \* the activation record of startTesting
  built             \* the last call of a frame builder: its arguments and what it returned

vars == << masterBuffer, stopRequested, updatePaused, isUpdating, isConnected,
           portWritable, updateProgress, selectedFileLen, fileVersion, nRuns,
           resetTimers, run, test, rev, built, isTesting, summaryStats, results, stress >>

\* What only startTesting and its buttons change.
StressVars == << isTesting, summaryStats, results, stress >>

Runs == 1..MaxRuns

\* pc values of a runFirmwareUpdate call.
\*   idle         not called yet
\*   restartwait  line 259, the 200 ms after raising the stop flag
\*   f0wait       line 275, the 1000 ms after F0H
\*   paused       line 280, the 100 ms sleep of the pause loop
\*   ackwait      lines 293-303, the acknowledgment wait of page i
\*   f2wait       lines 316-330
\*   settle       line 334
\*   verify       lines 344-353, the wait of verification attempt `attempt`
\*   success, failed, aborted   the three ways the call ends in part_000
Active == {"restartwait", "f0wait", "paused", "ackwait", "f2wait", "settle", "verify"}
\*   stopped      App.tsx only: the call returned after a stop, reporting nothing
Ended == {"success", "failed", "aborted", "stopped"}

NoError == [kind |-> "none", a |-> << >>, b |-> << >>]

IdleRun ==
  [ pc |-> "idle", totalP |-> 0, i |-> 0, attempt |-> 0, verifiedVersion |-> << >>,
    error |-> NoError,
    tx |-> << >>,          \* the frames this call handed to the transport, in order
    confirmedPages |-> 0,  \* history: pages whose acknowledgment was accepted
    f2Confirmed |-> FALSE,
    cancelSeen |-> FALSE,  \* history: the stop flag was raised while the call ran
    ackExpired |-> FALSE,  \* history: an acknowledgment wait ran out of time
    versionSeen |-> FALSE ] \* history: line 347 found a 35H response with a version

\* pc values of a runSingleTest call: idle (not called), writing (line 280, the
\* write of the request is awaited), polling (the loop of App.tsx lines
\* 283-326), done (a result was returned), null (line 268 returned null).
IdleTest ==
  [ pc |-> "idle", commandType |-> "64H", cycle |-> 0,
    isFinished |-> FALSE, finalErrorCode |-> NA,
    epcList |-> << >>, processedRaw |-> { }, userData |-> << >>, fwVersion |-> << >>,
    status |-> "none",
    errorMsg |-> << >>,      \* errorMsg of the result (line 331)
    tx |-> << >>,            \* the frames the call handed to the transport
    processedLog |-> << >>,  \* history: the packets that passed line 286, in order
    dedupeHit |-> FALSE,     \* history: line 286 turned a packet away
    scannedBuf |-> << >>,    \* history: the buffer the last scan of the loop read
    staleLen |-> 0,          \* history: the bytes that arrived before the request was written
    writeFailed |-> FALSE,   \* history: the write of the request was rejected (line 158)
    deadlinePassed |-> FALSE ] \* history: the loop ended because the deadline passed

\* pc values of a startTesting call: idle (not called), top (line 366, the top
\* of the loop for cycle i), cycle (line 368, runSingleTest(i) is awaited),
\* ended (line 375 is done).  totalCycles, stopOnError and commandType are the
\* config the call captured.
IdleStress ==
  [ pc |-> "idle", i |-> 0, totalCycles |-> 0, stopOnError |-> FALSE, commandType |-> "64H",
    started |-> 0,           \* history: the cycles whose runSingleTest went past line 268
    outcomes |-> << >>,      \* history: the statuses runSingleTest returned, in order
    cancelled |-> FALSE ]    \* history: the stop flag was raised while the call ran

NoStats == [total |-> 0, success |-> 0]

InitStress ==
  /\ isTesting = FALSE
  /\ summaryStats = NoStats
  /\ results = << >>
  /\ stress = IdleStress

\* ------------------------------------------------------- builder calls
\* built before a builder was called.
NoCall == [fn |-> "none", args |-> << >>, threw |-> FALSE, frame |-> << >>]

Returned(fn, args, frame) == [fn |-> fn, args |-> args, threw |-> FALSE, frame |-> frame]

\* The text c c c ... of n characters.
Repeat(c, n) == [k \in 1..n |-> c]

\* Arguments the builders are called with.  Numbers stay in the range of a
\* 32-bit integer; undefined stands for an argument that was left out.
Ids == {1, 255, 256}
Antennas == {0, 3}
Powers == {33, 300}
Timeouts == {3000, 16777216, 2147483647}
RecordCounts == {Undefined, 0, 1, 10, 256, 2147483647}
LenWords == {1, 6}
PageCounts == {1, 256, 65535}
\* "", "0000", "1A2b", "zz", "0x10", " 12", "-1", "12345"
AddrTexts ==
  { << >>, << 48, 48, 48, 48 >>, << 49, 65, 50, 98 >>, << 122, 122 >>,
    << 48, 120, 49, 48 >>, << 32, 49, 50 >>, << 45, 49 >>, << 49, 50, 51, 52, 53 >> }
\* Data texts are written as a unit and the number of times it is repeated:
\* "", "AB", "ab cd", "ABC", "ZZ", "1\t2\n34" once each.
Once(unit) == [unit |-> unit, times |-> 1]
DataTexts ==
  { Once(<< >>), Once(<< 65, 66 >>), Once(<< 97, 98, 32, 99, 100 >>), Once(<< 65, 66, 67 >>),
    Once(<< 90, 90 >>), Once(<< 49, 9, 50, 10, 51, 52 >>) }
\* The text a unit and a number of times stand for.
Text(d) ==
  [k \in 1..(Len(d.unit) * d.times) |-> d.unit[((k - 1) % Len(d.unit)) + 1]]
\* What build70HRequest is given as id, antenna, address, length and data: the
\* values above, and once MaxPayload times "FF".
WriteArgs ==
  ({DeviceId, 255} \X Antennas \X AddrTexts \X LenWords \X DataTexts)
    \cup { << DeviceId, 0, << 48, 48, 48, 48 >>, 1,
              [unit |-> << 70, 70 >>, times |-> MaxPayload] >> }
\* Data blocks handed to buildF1HRequest.
DataBlocks == { Repeat(165, n) : n \in {0, 1, 512, 513, 514} }
\* Images: byte k is never 0, so that padding shows.
Image(len) == [k \in 1..len |-> ((k * 7) % 255) + 1]
ImageLens == {0} \cup UNION { { (p - 1) * PageSize - 1, (p - 1) * PageSize,
                                (p - 1) * PageSize + 1 } \cap (1..(MaxImagePages * PageSize))
                              : p \in 1..MaxImagePages }

AllButBuilt == << masterBuffer, stopRequested, updatePaused, isUpdating, isConnected,
                  portWritable, updateProgress, selectedFileLen, fileVersion, nRuns,
                  resetTimers, run, test, rev, isTesting, summaryStats, results, stress >>

Call64H ==
  /\ built = NoCall
  /\ \E id \in Ids, antenna \in Antennas, power \in Powers, timeoutMs \in Timeouts,
        maxRecords \in RecordCounts :
       built' = Returned("64H",
                         [id |-> id, antenna |-> antenna, power |-> power,
                          timeoutMs |-> timeoutMs, maxRecords |-> maxRecords],
                         build64HRequest(id, antenna, power, timeoutMs, maxRecords))
  /\ UNCHANGED AllButBuilt

Call61H ==
  /\ built = NoCall
  /\ \E id \in Ids, antenna \in Antennas :
       built' = Returned("61H", [id |-> id, antenna |-> antenna],
                         build61HRequest(id, antenna))
  /\ UNCHANGED AllButBuilt

Call63H ==
  /\ built = NoCall
  /\ \E id \in Ids, antenna \in Antennas, addrHex \in AddrTexts, lenWord \in LenWords :
       built' = Returned("63H",
                         [id |-> id, antenna |-> antenna, addrHex |-> addrHex,
                          lenWord |-> lenWord],
                         build63HRequest(id, antenna, addrHex, lenWord))
  /\ UNCHANGED AllButBuilt

Call35H ==
  /\ built = NoCall
  /\ \E id \in Ids : built' = Returned("35H", [id |-> id], build35HRequest(id))
  /\ UNCHANGED AllButBuilt

CallF0H ==
  /\ built = NoCall
  /\ \E id \in Ids : built' = Returned("F0H", [id |-> id], buildF0HRequest(id))
  /\ UNCHANGED AllButBuilt

CallF1H ==
  /\ built = NoCall
  /\ \E id \in Ids, count \in PageCounts, data512 \in DataBlocks :
       LET r == buildF1HRequest(id, count, data512)
       IN  built' = [fn |-> "F1H",
                     args |-> [id |-> id, count |-> count, data512 |-> data512],
                     threw |-> r.threw, frame |-> r.frame]
  /\ UNCHANGED AllButBuilt

CallF2H ==
  /\ built = NoCall
  /\ \E id \in Ids : built' = Returned("F2H", [id |-> id], buildF2HRequest(id))
  /\ UNCHANGED AllButBuilt

Call70H ==
  /\ built = NoCall
  /\ \E a \in WriteArgs, power \in {33} :
       built' = Returned("70H",
                         [id |-> a[1], antenna |-> a[2], power |-> power,
                          addrHex |-> a[3], lenWord |-> a[4], dataHex |-> a[5]],
                         build70HRequest(a[1], a[2], power, a[3], a[4], Text(a[5])))
  /\ UNCHANGED AllButBuilt

\* runFirmwareUpdate, lines 269-289, without the waits: the image is cut into
\* pages, and each page is padded and handed to buildF1HRequest.
BuildPages ==
  /\ built = NoCall
  /\ \E len \in ImageLens :
       LET fileData == Image(len)
           totalP == TotalPages(fileData)
           chunks == [i \in 1..totalP |-> PageChunk(fileData, i)]
           calls == [i \in 1..totalP |-> buildF1HRequest(DeviceId, i, chunks[i])]
       IN  built' = [fn |-> "pages", args |-> [fileData |-> fileData],
                     totalP |-> totalP, chunks |-> chunks,
                     threw |-> \E i \in 1..totalP : calls[i].threw,
                     frame |-> << >>,
                     frames |-> [i \in 1..totalP |-> calls[i].frame]]
  /\ UNCHANGED AllButBuilt

\* ------------------------------------------------------- device responses
\* What the reader sends is input: complete response frames, with the byte
\* layout scanAllPackets decodes.  The checksum byte is not read by the code.
F1Response(page, hi, lo) == << 8, 0, 7, 241, DeviceId, page \div 256, page % 256, hi, lo, 0 >>
F2Response(hi, lo) == << 8, 0, 5, 242, DeviceId, hi, lo, 0 >>
V35Response(ver) == << 8, 0, Len(ver) + 5, 53, DeviceId >> \o ver \o << 0, 1, 0 >>

DeviceVersions == { << 118, 49 >>, << 50 >>, << 32 >> }   \* "v1", "2", " "
FileVersions == { << >>, << 86, 49 >>, << 86, 50 >> }    \* none, "V1", "V2"

\* Image lengths: empty, and one byte into each page up to MaxPages pages.
FileLens == {0} \cup { (p - 1) * PageSize + 1 : p \in 1..MaxPages }

F0Response == << 8, 0, 7, 240, DeviceId, 0, 0, 0, 1, 0 >>

\* What may arrive while a call waits at pc for page i: responses of the
\* awaited kind, right and wrong, and a frame of another kind.
RxFrames(pc, i) ==
  {F0Response} \cup
  ( CASE pc = "ackwait" -> { F1Response(p, 0, 1) : p \in {i - 1, i, i + 1} }
                             \cup { F1Response(i, 0, 2) }
      [] pc = "f2wait"  -> { F2Response(0, 1), F2Response(0, 2) }
      [] pc = "verify"  -> { V35Response(v) : v \in DeviceVersions }
      [] OTHER          -> { } )

\* -------------------------------------------------------------- transport
\* writeToSerial: nothing is written when the port is not writable.
writeToSerial(tx, frame) == IF portWritable THEN Append(tx, frame) ELSE tx

\* The state once connectSerial has opened the port and a file is selected.
InitUpdate ==
  /\ masterBuffer = << >>
  /\ stopRequested = FALSE
  /\ updatePaused = FALSE
  /\ isUpdating = FALSE
  /\ isConnected = TRUE
  /\ portWritable = TRUE
  /\ updateProgress = 0
  /\ selectedFileLen \in FileLens
  /\ fileVersion \in IF selectedFileLen = 1 THEN FileVersions ELSE { << >> }
  /\ nRuns = 0
  /\ resetTimers = 0
  /\ run = [r \in Runs |-> IdleRun]
  /\ test = IdleTest
  /\ InitStress
  /\ built = NoCall

Init == InitUpdate /\ rev = "part_000"

\* ------------------------------------------------- runFirmwareUpdate steps
\* ERROR_CODES of ./types: the codes that have a message, and the message of a
\* code, written as '#' and the code.
KnownCodes == { OK0000, OK0001 }
Message(code) == << 35 >> \o code

\* The text of line 331 for a code without a message.
TimeoutText == << 36926, 26178 >>

\* App.tsx line 331: ERROR_CODES[finalErrorCode] || TimeoutText
ResultMessage(code) == IF code \in KnownCodes THEN Message(code) ELSE TimeoutText

\* part_000 lines 325-326: ERROR_CODES[ack.errorCode] || ack.errorCode
F2Message(code) == IF code \in KnownCodes THEN Message(code) ELSE code

Failure(kind, a, b) == [kind |-> kind, a |-> a, b |-> b]

\* The catch block: setUpdateStatus, addLog, setIsUpdating(false).
Throw(r, rec, err) ==
  /\ run' = [run EXCEPT ![r] = [rec EXCEPT !.pc = "failed", !.error = err]]
  /\ isUpdating' = FALSE
  /\ UNCHANGED resetTimers

\* Fault variant of Finalize000: the stop flag is not looked at before F2H.
Finalize000_IgnoreStop(r, rec) ==
  /\ masterBuffer' = << >>
  /\ run' = [run EXCEPT ![r] =
               [rec EXCEPT !.pc = "f2wait", !.tx = writeToSerial(rec.tx, << "F2H", 0 >>)]]
  /\ UNCHANGED << isUpdating, resetTimers >>

\* part_000 lines 309-312 and 376-378: after the page loop.
Finalize000(r, rec) ==
  IF ~stopRequested
    THEN /\ masterBuffer' = << >>
         /\ run' = [run EXCEPT ![r] =
                      [rec EXCEPT !.pc = "f2wait", !.tx = writeToSerial(rec.tx, << "F2H", 0 >>)]]
         /\ UNCHANGED << isUpdating, resetTimers >>
    ELSE /\ run' = [run EXCEPT ![r] = [rec EXCEPT !.pc = "aborted"]]
         /\ UNCHANGED << masterBuffer, isUpdating, resetTimers >>

\* App.tsx lines 258-263: F2H is written and success reported at once;
\* isUpdating is cleared 3 s later.
FinalizeApp(r, rec) ==
  /\ run' = [run EXCEPT ![r] =
               IF ~stopRequested
                 THEN [rec EXCEPT !.pc = "success", !.tx = writeToSerial(rec.tx, << "F2H", 0 >>)]
                 ELSE [rec EXCEPT !.pc = "stopped"]]
  /\ resetTimers' = IF ~stopRequested THEN Min(resetTimers + 1, MaxTimers) ELSE resetTimers
  /\ UNCHANGED << masterBuffer, isUpdating >>

Finalize(r, rec) == IF rev = "App" THEN FinalizeApp(r, rec) ELSE Finalize000(r, rec)

\* Lines 277-289: the top of the page loop for page i, through the F1H write.
\* isConnected at line 282 is the value captured when the call began, which
\* the guard of line 255 made true.
PageLoop(r, rec, i) ==
  IF i <= rec.totalP
    THEN IF updatePaused /\ ~stopRequested
           THEN /\ run' = [run EXCEPT ![r] = [rec EXCEPT !.pc = "paused", !.i = i]]
                /\ UNCHANGED << masterBuffer, isUpdating, resetTimers >>
         ELSE IF stopRequested
           THEN Finalize(r, [rec EXCEPT !.i = i])
         ELSE /\ masterBuffer' = << >>
              /\ run' = [run EXCEPT ![r] =
                           [rec EXCEPT !.pc = "ackwait", !.i = i,
                                       !.tx = writeToSerial(rec.tx, << "F1H", i >>)]]
              /\ UNCHANGED << isUpdating, resetTimers >>
    ELSE Finalize(r, [rec EXCEPT !.i = i])

\* Line 296: the packet an acknowledgment of page i is looked for in.
AckMatches(p, i) == p.cmd = 241 /\ (p.currentPacketNum = i \/ p.currentPacketNum = i - 1)

\* part_000 lines 295-297: whether this scan confirms page i.
PageConfirmed000(buffer, i) ==
  LET pkts == scanAllPackets(buffer, "F1")
      acks == SelectSeq(pkts, LAMBDA p : AckMatches(p, i))
  IN  acks # << >> /\ Head(acks).errorCode = OK0001

\* App.tsx lines 249-250: the error code is part of what find looks for.
PageConfirmedApp(buffer, i) ==
  LET pkts == scanAllPackets(buffer, "F1")
      acks == SelectSeq(pkts, LAMBDA p : AckMatches(p, i) /\ p.errorCode = OK0001)
  IN  acks # << >>

PageConfirmed(buffer, i) ==
  IF rev = "App" THEN PageConfirmedApp(buffer, i) ELSE PageConfirmed000(buffer, i)

\* Fault variant of VersionMismatch: the prefix is removed from the expected
\* version only.
VersionMismatch_OneSided(expected, observed) ==
  /\ expected # << >>
  /\ StripLeadingV(ToUpperCase(expected)) # ToUpperCase(observed)

\* Lines 363-369: the version check; TRUE when it throws.
VersionMismatch(expected, observed) ==
  /\ expected # << >>
  /\ StripLeadingV(ToUpperCase(expected)) # StripLeadingV(ToUpperCase(observed))

\* Fault variant of VerifyLoop: one attempt more than the code makes.
VerifyLoop_ExtraAttempt(r, rec, attempt) ==
  IF attempt <= VerifyAttempts + 1 /\ ~stopRequested
    THEN /\ masterBuffer' = << >>
         /\ run' = [run EXCEPT ![r] =
                      [rec EXCEPT !.pc = "verify", !.attempt = attempt,
                                  !.tx = writeToSerial(rec.tx, << "35H", 0 >>)]]
         /\ UNCHANGED << isUpdating, resetTimers >>
    ELSE /\ Throw(r, [rec EXCEPT !.attempt = attempt], Failure("noVersion", << >>, << >>))
         /\ UNCHANGED masterBuffer

\* Lines 337-341: the top of verification attempt `attempt`.
VerifyLoop(r, rec, attempt) ==
  IF attempt <= VerifyAttempts /\ ~stopRequested
    THEN /\ masterBuffer' = << >>
         /\ run' = [run EXCEPT ![r] =
                      [rec EXCEPT !.pc = "verify", !.attempt = attempt,
                                  !.tx = writeToSerial(rec.tx, << "35H", 0 >>)]]
         /\ UNCHANGED << isUpdating, resetTimers >>
    ELSE /\ Throw(r, [rec EXCEPT !.attempt = attempt], Failure("noVersion", << >>, << >>))
         /\ UNCHANGED masterBuffer

\* The stop flag is raised: every call that is running saw it raised.
MarkCancelled(f) ==
  [r \in Runs |-> IF f[r].pc \in Active \ {"restartwait"}
                    THEN [f[r] EXCEPT !.cancelSeen = TRUE] ELSE f[r]]

\* Lines 262-275: from setIsUpdating(true) through the F0H write.
Begin(r, rec) ==
  /\ isUpdating' = TRUE
  /\ updatePaused' = FALSE
  /\ updateProgress' = 0
  /\ stopRequested' = FALSE
  /\ run' = [run EXCEPT ![r] =
               [rec EXCEPT !.pc = "f0wait", !.totalP = CeilDiv(selectedFileLen, PageSize),
                           !.tx = writeToSerial(rec.tx, << "F0H", 0 >>)]]
  /\ UNCHANGED << masterBuffer, isConnected, portWritable, selectedFileLen, fileVersion,
                  resetTimers, test, rev, built, StressVars >>

\* A call that has ended keeps its record for one step, in which nothing else
\* happens: no other step reads the record of an ended call, so the order is
\* immaterial to the program.  Return then drops the record.
Settled == \A q \in Runs : run[q].pc \notin Ended

\* The update button (lines 671-677) calls runFirmwareUpdate(isUpdatePaused).
\* MaxRuns calls are made at most; call number r uses record r.
StartUpdate ==
  /\ Settled
  /\ isConnected /\ ~(isUpdating /\ ~updatePaused)
  /\ nRuns < MaxRuns
  /\ nRuns' = nRuns + 1
  /\ IF updatePaused
       THEN /\ stopRequested' = TRUE
            /\ run' = [MarkCancelled(run) EXCEPT ![nRuns + 1].pc = "restartwait"]
            /\ UNCHANGED << masterBuffer, updatePaused, isUpdating, isConnected, portWritable,
                            updateProgress, selectedFileLen, fileVersion, resetTimers,
                            test, rev, built, StressVars >>
       ELSE Begin(nRuns + 1, run[nRuns + 1])

\* The call returns: its record is dropped.
Return(r) ==
  /\ run[r].pc \in Ended
  /\ run' = [run EXCEPT ![r] = IdleRun]
  /\ UNCHANGED << masterBuffer, stopRequested, updatePaused, isUpdating, isConnected,
                  portWritable, updateProgress, selectedFileLen, fileVersion,
                  nRuns, resetTimers, test, rev, built, StressVars >>

\* Line 259 is over.  The 200 ms outlast the 100 ms sleep of a pause loop and
\* the 20 ms sleep of an acknowledgment wait: a call sleeping there has polled.
RestartWaitDone(r) ==
  /\ Settled
  /\ run[r].pc = "restartwait"
  /\ \A q \in Runs : run[q].pc \notin {"paused", "ackwait"}
  /\ Begin(r, run[r])
  /\ UNCHANGED nRuns

\* The pause button (lines 679-685).
TogglePause ==
  /\ Settled
  /\ isUpdating
  /\ updatePaused' = ~updatePaused
  /\ UNCHANGED << masterBuffer, stopRequested, isUpdating, isConnected, portWritable,
                  updateProgress, selectedFileLen, fileVersion, nRuns,
                  resetTimers, run, test, rev, built, StressVars >>

Shared == << stopRequested, updatePaused, isConnected, portWritable, selectedFileLen,
             fileVersion, nRuns, test, rev, built, StressVars >>

\* Line 275 is over: the page loop starts.
F0WaitDone(r) ==
  /\ Settled
  /\ run[r].pc = "f0wait"
  /\ PageLoop(r, run[r], 1)
  /\ UNCHANGED << Shared, updateProgress >>

\* Lines 278-281: the pause loop wakes up.
PausePoll(r) ==
  /\ Settled
  /\ run[r].pc = "paused"
  /\ PageLoop(r, run[r], run[r].i)
  /\ UNCHANGED << Shared, updateProgress >>

\* Lines 293-306: one iteration of the acknowledgment wait of page i.
AckPoll(r) ==
  /\ Settled
  /\ run[r].pc = "ackwait"
  /\ LET rec == run[r]
     IN  IF stopRequested
           THEN Finalize(r, rec) /\ UNCHANGED updateProgress
         ELSE IF PageConfirmed(masterBuffer, rec.i)
           THEN /\ updateProgress' = Percent(rec.i, rec.totalP)
                /\ PageLoop(r, [rec EXCEPT !.confirmedPages = rec.i], rec.i + 1)
         ELSE UNCHANGED << run, masterBuffer, isUpdating, resetTimers, updateProgress >>
  /\ UNCHANGED Shared

\* Fault variant of AckTimeout: an unconfirmed page is sent again.
AckTimeout_Resend(r) ==
  /\ Settled
  /\ run[r].pc = "ackwait"
  /\ PageLoop(r, [run[r] EXCEPT !.ackExpired = TRUE], run[r].i)
  /\ UNCHANGED << Shared, updateProgress >>

\* Lines 293, 304, 305: the 3000 ms are over and the page is not confirmed.
AckTimeout(r) ==
  /\ Settled
  /\ run[r].pc = "ackwait"
  /\ LET rec == [run[r] EXCEPT !.ackExpired = TRUE]
     IN  IF stopRequested
           THEN Finalize(r, rec)
           ELSE Throw(r, rec, Failure("pageTimeout", << rec.i >>, << >>))
                /\ UNCHANGED masterBuffer
  /\ UNCHANGED << Shared, updateProgress >>

IsF2(p) == p.cmd = 242

\* Lines 316-330: one iteration of the wait for the F2H response.
F2Poll(r) ==
  /\ Settled
  /\ run[r].pc = "f2wait"
  /\ LET pkts == scanAllPackets(masterBuffer, "F2")
         acks == SelectSeq(pkts, IsF2)
     IN  IF acks # << >>
           THEN IF Head(acks).errorCode = OK0001
                  THEN /\ run' = [run EXCEPT ![r].pc = "settle", ![r].f2Confirmed = TRUE]
                       /\ UNCHANGED << isUpdating, resetTimers >>
                  ELSE Throw(r, run[r], Failure("f2", Head(acks).errorCode, F2Message(Head(acks).errorCode)))
           ELSE UNCHANGED << run, isUpdating, resetTimers >>
  /\ UNCHANGED << Shared, masterBuffer, updateProgress >>

\* Lines 316, 331: the 3000 ms are over.
F2Timeout(r) ==
  /\ Settled
  /\ run[r].pc = "f2wait"
  /\ Throw(r, run[r], Failure("f2NoReply", << >>, << >>))
  /\ UNCHANGED << Shared, masterBuffer, updateProgress >>

\* Line 334 is over: the verification loop starts.
SettleDone(r) ==
  /\ Settled
  /\ run[r].pc = "settle"
  /\ VerifyLoop(r, run[r], 1)
  /\ UNCHANGED << Shared, updateProgress >>

Is35(p) == p.cmd = 53

\* Lines 371-375: the update succeeded; isUpdating is cleared 3 s later.
Succeed(r, rec) ==
  /\ run' = [run EXCEPT ![r] = [rec EXCEPT !.pc = "success"]]
  /\ resetTimers' = Min(resetTimers + 1, MaxTimers)
  /\ UNCHANGED isUpdating

\* Lines 344-375: one iteration of the wait of a verification attempt.
VerifyPoll(r) ==
  /\ Settled
  /\ run[r].pc = "verify"
  /\ LET pkts == scanAllPackets(masterBuffer, "35H")
         rec == run[r]
         acks == SelectSeq(pkts, Is35)
     IN  IF acks # << >> /\ Head(acks).fwVersion # << >>
           THEN LET v == Trim(Head(acks).fwVersion)
                    rec1 == [rec EXCEPT !.verifiedVersion = v, !.versionSeen = TRUE]
                IN  IF v = << >>
                      THEN VerifyLoop(r, rec1, rec.attempt + 1)
                    ELSE IF VersionMismatch(fileVersion, v)
                      THEN Throw(r, rec1, Failure("versionMismatch", fileVersion, v))
                           /\ UNCHANGED masterBuffer
                    ELSE Succeed(r, rec1) /\ UNCHANGED masterBuffer
           ELSE UNCHANGED << run, isUpdating, resetTimers, masterBuffer >>
  /\ UNCHANGED << Shared, updateProgress >>

\* Lines 344, 354: the 1000 ms of the attempt are over.
VerifyTimeout(r) ==
  /\ Settled
  /\ run[r].pc = "verify"
  /\ VerifyLoop(r, run[r], run[r].attempt + 1)
  /\ UNCHANGED << Shared, updateProgress >>

\* startBackgroundRead, lines 164-173: a chunk arrives and is appended.  Every
\* wait starts by emptying the buffer, so only what arrives while a call waits
\* is ever scanned.
Receive ==
  /\ Settled
  /\ isConnected
  /\ \E r \in Runs : \E f \in RxFrames(run[r].pc, run[r].i) :
       /\ Len(masterBuffer) + Len(f) <= MaxBuf
       /\ masterBuffer' = masterBuffer \o f
  /\ UNCHANGED << stopRequested, updatePaused, isUpdating, isConnected, portWritable,
                  updateProgress, selectedFileLen, fileVersion, nRuns,
                  resetTimers, run, test, rev, built, StressVars >>

\* disconnectSerial, lines 197-208, with cleanupState.
Disconnect ==
  /\ Settled
  /\ isConnected
  /\ LET raise == isTesting \/ isUpdating \/ test.pc \in {"writing", "polling"}
     IN  /\ stopRequested' = (stopRequested \/ raise)
         /\ run' = IF raise THEN MarkCancelled(run) ELSE run
         /\ stress' = IF raise /\ stress.pc \in {"top", "cycle"}
                        THEN [stress EXCEPT !.cancelled = TRUE] ELSE stress
  /\ isConnected' = FALSE
  /\ portWritable' = FALSE
  /\ isUpdating' = FALSE
  /\ updatePaused' = FALSE
  /\ isTesting' = FALSE
  /\ UNCHANGED << masterBuffer, updateProgress, selectedFileLen, fileVersion, nRuns,
                  resetTimers, test, rev, built, summaryStats, results >>

\* The timer of lines 372-375 (App.tsx line 262) fires.
SuccessTimer ==
  /\ Settled
  /\ resetTimers > 0
  /\ resetTimers' = resetTimers - 1
  /\ isUpdating' = FALSE
  /\ updateProgress' = IF rev = "App" THEN updateProgress ELSE 0
  /\ UNCHANGED << Shared, masterBuffer, run >>

\* ------------------------------------------------------------ runSingleTest
\* config.commandType: the request a cycle writes.
CommandTypes == {"64H", "35H"}

\* Responses to the test commands, with the byte layout scanAllPackets decodes.
\* A 64H tag frame (status 0) with a one-byte EPC, 18 bytes.
Tag64(e) == << 8, 0, 15, 100, DeviceId, 0, 0, 0, 0, e, 0, 0, 0, 0, 1, 0, 1, 0 >>
\* A 64H batch-finished frame (status 1), 14 bytes.
End64(hi, lo) == << 8, 0, 11, 100, DeviceId, 0, 1, 0, 0, 0, 2, hi, lo, 0 >>
\* A 61H response with a two-byte EPC, 15 bytes.
R61(e, hi, lo) == << 8, 0, 12, 97, DeviceId, 0, 0, 0, 0, e, e, hi, lo, 0, 0 >>

\* A frame with the checksum the device computes in its last byte; the frames
\* above end in 0, which is not their checksum.
Sealed(frame) == WithChecksum(SubSeq(frame, 1, Len(frame) - 1))

TestFrames ==
  { Tag64(65), Tag64(66), End64(0, 1), End64(0, 0), End64(0, 2),
    V35Response(<< 118, 49 >>), R61(67, 0, 1), Sealed(End64(0, 1)) }

\* The bytes the byte-wise reader delivers: a start byte, 0, and two lengths.
ScanBytes == {0, 1, 4, 8}

InSeq(x, seq) == \E k \in 1..Len(seq) : seq[k] = x

\* isFinished = true; finalErrorCode = p.errorCode
Finish(st, p) == [st EXCEPT !.isFinished = TRUE, !.finalErrorCode = p.errorCode]

\* if (!epcList.includes(p.epc)) epcList.push(p.epc)
AddEpc(st, epc) == IF InSeq(epc, st.epcList) THEN st ELSE [st EXCEPT !.epcList = Append(@, epc)]

\* Fault variant of ProcessNew: a 64H tag frame ends the wait as well.
ProcessNew_TagFinishes(st, p) ==
  IF p.cmd = 100 /\ p.status \in {0, 1} THEN Finish(st, p) ELSE st

\* App.tsx lines 289-321 (part_000 lines 411-436): what a packet not seen
\* before does to the cycle.  part_000 has no branch for 70H and 63H.
ProcessNew(st, p) ==
  IF p.cmd = 53 THEN
    IF rev = "App" THEN [Finish(st, p) EXCEPT !.fwVersion = p.fwVersion] ELSE Finish(st, p)
  ELSE IF p.cmd = 112 /\ rev = "App" THEN Finish(st, p)
  ELSE IF p.cmd = 97 THEN
    LET s1 == IF p.epc # << >> THEN AddEpc(st, p.epc) ELSE st
    IN  IF p.errorCode # NA THEN Finish(s1, p) ELSE s1
  ELSE IF p.cmd = 99 /\ rev = "App" THEN
    LET s1 == IF p.userData # << >> THEN [st EXCEPT !.userData = p.userData] ELSE st
    IN  IF p.errorCode # NA THEN Finish(s1, p) ELSE s1
  ELSE IF p.cmd = 100 THEN
    IF p.status = 1 THEN Finish(st, p)
    ELSE IF p.status = 0 /\ p.epc # << >> THEN AddEpc(st, p.epc)
    ELSE st
  ELSE st

\* Fault variant of ProcessPacket: a packet whose last byte is not the XOR of
\* the bytes before it is dropped.
ProcessPacket_ChecksumChecked(st, p) ==
  LET bytes == hexToAscii(p.raw)
  IN  IF bytes[Len(bytes)] # calculateXOR(SubSeq(bytes, 1, Len(bytes) - 1)) THEN st
      ELSE IF p.raw \in st.processedRaw
        THEN [st EXCEPT !.dedupeHit = TRUE]
        ELSE ProcessNew([st EXCEPT !.processedRaw = @ \cup {p.raw},
                                   !.processedLog = Append(@, p)], p)

\* Fault variant of ProcessPacket: processedRaw is not consulted.
ProcessPacket_NoDedupe(st, p) ==
  ProcessNew([st EXCEPT !.processedRaw = @ \cup {p.raw}, !.processedLog = Append(@, p)], p)

\* Lines 286-287: the body of packets.forEach.
ProcessPacket(st, p) ==
  IF p.raw \in st.processedRaw
    THEN [st EXCEPT !.dedupeHit = TRUE]
    ELSE ProcessNew([st EXCEPT !.processedRaw = @ \cup {p.raw},
                               !.processedLog = Append(@, p)], p)

\* Fault variant of ProcessAll: the loop over the packets is left at the first
\* packet that ends the wait.
RECURSIVE ProcessAll_StopsAtFirst(_, _)
ProcessAll_StopsAtFirst(st, pkts) ==
  IF pkts = << >> \/ st.isFinished THEN st
  ELSE ProcessAll_StopsAtFirst(ProcessPacket(st, Head(pkts)), Tail(pkts))

\* packets.forEach
RECURSIVE ProcessAll(_, _)
ProcessAll(st, pkts) ==
  IF pkts = << >> THEN st ELSE ProcessAll(ProcessPacket(st, Head(pkts)), Tail(pkts))

\* Fault variant of Conclude: only '0001' counts as success.
Conclude_Only0001(st) ==
  [st EXCEPT !.pc = "done", !.errorMsg = ResultMessage(st.finalErrorCode),
             !.status = IF st.isFinished /\ st.finalErrorCode = OK0001 THEN "Success"
                        ELSE IF st.isFinished THEN "Failure" ELSE "Timeout"]

\* Lines 328-336: the result the call returns.
Conclude(st) ==
  [st EXCEPT !.pc = "done", !.errorMsg = ResultMessage(st.finalErrorCode),
             !.status = IF st.isFinished /\ (st.finalErrorCode = OK0001 \/ st.finalErrorCode = OK0000)
                          THEN "Success"
                        ELSE IF st.isFinished THEN "Failure" ELSE "Timeout"]

UpdateVars == << updatePaused, isUpdating, updateProgress, selectedFileLen, fileVersion,
                 nRuns, resetTimers, run, rev, built >>

\* runSingleTest(cycle), lines 267-280, up to the call of writeToSerial: null
\* when the port is not writable; otherwise the buffer is emptied and the
\* write of the request begins.
EnterSingleTest(cmd, cycle) ==
  IF ~portWritable
    THEN /\ test' = [IdleTest EXCEPT !.pc = "null", !.commandType = cmd, !.cycle = cycle]
         /\ UNCHANGED masterBuffer
    ELSE /\ masterBuffer' = << >>
         /\ test' = [IdleTest EXCEPT !.pc = "writing", !.commandType = cmd, !.cycle = cycle]

\* handleSingleTest (lines 349-355) calls runSingleTest(0).  isSingleTesting
\* is true exactly while the call runs.  The entry of the result into the
\* history (line 353) is left out: results models the history of a stress test.
StartSingle ==
  /\ isConnected /\ ~isTesting /\ test.pc \notin {"writing", "polling"}
  /\ \E cmd \in CommandTypes : EnterSingleTest(cmd, 0)
  /\ UNCHANGED << stopRequested, isConnected, portWritable, UpdateVars, StressVars >>

\* Line 280, writeToSerial has returned: the request is on the transport (when
\* the port is still writable) and the polling loop starts.  What the buffer
\* holds now arrived before the request was out.
WriteDone ==
  /\ test.pc = "writing"
  /\ test' = [test EXCEPT !.pc = "polling", !.staleLen = Len(masterBuffer),
                          !.tx = writeToSerial(<< >>, << test.commandType, 0 >>)]
  /\ UNCHANGED << masterBuffer, stopRequested, isConnected, portWritable, UpdateVars,
                  StressVars >>

\* Line 280, writer.write rejects: writeToSerial (lines 150-159) catches the
\* error, writes a log line and returns normally, so that runSingleTest goes on
\* to the polling loop with nothing on the transport.
WriteFails ==
  /\ test.pc = "writing"
  /\ test' = [test EXCEPT !.pc = "polling", !.staleLen = Len(masterBuffer),
                          !.writeFailed = TRUE]
  /\ UNCHANGED << masterBuffer, stopRequested, isConnected, portWritable, UpdateVars,
                  StressVars >>

\* Lines 283-326: one iteration of the polling loop.  isConnected in the loop
\* condition is the value captured when the call began.
CyclePoll ==
  /\ test.pc = "polling"
  /\ test' = IF stopRequested
               THEN Conclude(test)
               ELSE LET st == ProcessAll([test EXCEPT !.scannedBuf = masterBuffer],
                                         scanAllPackets(masterBuffer, test.commandType))
                    IN  IF st.isFinished THEN Conclude(st) ELSE st
  /\ UNCHANGED << masterBuffer, stopRequested, isConnected, portWritable, UpdateVars,
                  StressVars >>

\* Line 283: the deadline has passed.
CycleDeadline ==
  /\ test.pc = "polling"
  /\ test' = Conclude([test EXCEPT !.deadlinePassed = TRUE])
  /\ UNCHANGED << masterBuffer, stopRequested, isConnected, portWritable, UpdateVars,
                  StressVars >>

\* startBackgroundRead, lines 164-173, while a cycle writes its request or
\* polls: a response frame arrives whole.
ReceiveFrame ==
  /\ isConnected /\ test.pc \in {"writing", "polling"}
  /\ Len(scanAllPackets(masterBuffer, test.commandType)) < MaxFrames
  /\ \E f \in TestFrames : masterBuffer' = masterBuffer \o f
  /\ UNCHANGED << stopRequested, isConnected, portWritable, test, UpdateVars, StressVars >>

\* startBackgroundRead, lines 164-173, while a cycle polls: one byte arrives.
ReceiveByte ==
  /\ isConnected /\ test.pc = "polling"
  /\ Len(masterBuffer) < MaxScanLen
  /\ \E b \in ScanBytes : masterBuffer' = Append(masterBuffer, b)
  /\ UNCHANGED << stopRequested, isConnected, portWritable, test, UpdateVars, StressVars >>

\* ------------------------------------------------------------ startTesting
TestVars == << masterBuffer, test >>

\* The loop of lines 365-374 is left and line 375 runs.
EndTesting(st) ==
  /\ isTesting' = FALSE
  /\ stress' = [st EXCEPT !.pc = "ended"]

\* Line 373 and the loop header: on to cycle i + 1, after the interval; the
\* loop is over when cycle i was the last one.
NextCycleOrEnd(st) ==
  IF st.i < st.totalCycles
    THEN /\ stress' = [st EXCEPT !.pc = "top", !.i = st.i + 1]
         /\ UNCHANGED isTesting
    ELSE EndTesting(st)

\* The start button (line 492) calls startTesting, lines 357-364: the flag is
\* lowered, the history and the counters are cleared.  The button is disabled
\* while a single cycle runs and is the stop button while isTesting.
StartTesting ==
  /\ isConnected /\ ~isTesting /\ test.pc \notin {"writing", "polling"}
  /\ isTesting' = TRUE
  /\ stopRequested' = FALSE
  /\ results' = << >>
  /\ summaryStats' = NoStats
  /\ \E n \in 1..MaxCycles, b \in BOOLEAN, cmd \in CommandTypes :
       stress' = [IdleStress EXCEPT !.pc = "top", !.i = 1, !.totalCycles = n,
                                    !.stopOnError = b, !.commandType = cmd]
  /\ UNCHANGED << TestVars, isConnected, portWritable, UpdateVars >>

\* The stop button (line 492) while isTesting.
StopTesting ==
  /\ isConnected /\ isTesting
  /\ stopRequested' = TRUE
  /\ stress' = IF stress.pc \in {"top", "cycle"} THEN [stress EXCEPT !.cancelled = TRUE] ELSE stress
  /\ run' = MarkCancelled(run)
  /\ UNCHANGED << TestVars, isConnected, portWritable, updatePaused, isUpdating,
                  updateProgress, selectedFileLen, fileVersion, nRuns, resetTimers, rev, built,
                  isTesting, summaryStats, results >>

\* Lines 366-368: the top of the loop for cycle i, through the call of
\* runSingleTest(i).  isConnected is the value captured when startTesting was
\* called, which line 358 made true.  A null result is not recorded.
TestingTop ==
  /\ stress.pc = "top"
  /\ IF stopRequested
       THEN EndTesting(stress) /\ UNCHANGED TestVars
       ELSE /\ EnterSingleTest(stress.commandType, stress.i)
            /\ IF portWritable
                 THEN /\ stress' = [stress EXCEPT !.pc = "cycle", !.started = @ + 1]
                      /\ UNCHANGED isTesting
                 ELSE NextCycleOrEnd(stress)
  /\ UNCHANGED << stopRequested, isConnected, portWritable, UpdateVars, summaryStats, results >>

\* What the reader sends during a stress test: a tag, and the end of the batch
\* with the code of success and with another code.
StressFrames == { Tag64(65), End64(0, 1), End64(0, 2) }

\* startBackgroundRead, lines 164-173, during a cycle of a stress test: a
\* response frame arrives whole, MaxStressFrames frames a cycle at most.
ReceiveReply ==
  /\ isConnected /\ test.pc \in {"writing", "polling"}
  /\ Len(scanAllPackets(masterBuffer, test.commandType)) < MaxStressFrames
  /\ \E f \in StressFrames : masterBuffer' = masterBuffer \o f
  /\ UNCHANGED << stopRequested, isConnected, portWritable, test, UpdateVars, StressVars >>

\* processTestResult, App.tsx lines 339-347: the history keeps the newest
\* ResultsCap results.  part_000 line 480 keeps them all and has no counters.
processTestResult(status) ==
  /\ results' = IF rev = "App" THEN SubSeq(<< status >> \o results, 1,
                                            Min(Len(results) + 1, ResultsCap))
                                ELSE << status >> \o results
  /\ summaryStats' = IF rev = "App"
                        THEN [total |-> summaryStats.total + 1,
                              success |-> summaryStats.success
                                            + (IF status = "Success" THEN 1 ELSE 0)]
                        ELSE summaryStats

\* Fault variant of TestingRecorded: a result that is not a success is not recorded.
TestingRecorded_DropsFailures ==
  /\ stress.pc = "cycle" /\ test.pc = "done" /\ test.cycle = stress.i
  /\ LET st == [stress EXCEPT !.outcomes = Append(@, test.status)]
     IN  /\ IF test.status = "Success" THEN processTestResult(test.status)
                                         ELSE UNCHANGED << results, summaryStats >>
         /\ IF st.stopOnError /\ test.status # "Success"
              THEN EndTesting(st)
              ELSE NextCycleOrEnd(st)
  /\ UNCHANGED << TestVars, stopRequested, isConnected, portWritable, UpdateVars >>

\* Fault variant of TestingRecorded: stopOnError is not looked at.
TestingRecorded_NeverStops ==
  /\ stress.pc = "cycle" /\ test.pc = "done" /\ test.cycle = stress.i
  /\ LET st == [stress EXCEPT !.outcomes = Append(@, test.status)]
     IN  /\ processTestResult(test.status)
         /\ NextCycleOrEnd(st)
  /\ UNCHANGED << TestVars, stopRequested, isConnected, portWritable, UpdateVars >>

\* Lines 369-373: runSingleTest(i) returned a result; it is recorded, and the
\* loop is left when the result is not a success and stopOnError is set.
TestingRecorded ==
  /\ stress.pc = "cycle" /\ test.pc = "done" /\ test.cycle = stress.i
  /\ LET st == [stress EXCEPT !.outcomes = Append(@, test.status)]
     IN  /\ processTestResult(test.status)
         /\ IF st.stopOnError /\ test.status # "Success"
              THEN EndTesting(st)
              ELSE NextCycleOrEnd(st)
  /\ UNCHANGED << TestVars, stopRequested, isConnected, portWritable, UpdateVars >>

\* The counts the component shows: App.tsx line 422 shows the counters,
\* part_000 lines 492-493 count the history.
SuccessCount == IF rev = "App" THEN summaryStats.success
                ELSE Len(SelectSeq(results, LAMBDA x : x = "Success"))
TotalCount == IF rev = "App" THEN summaryStats.total ELSE Len(results)

Next ==
  \/ StartUpdate
  \/ TogglePause
  \/ Receive
  \/ Disconnect
  \/ SuccessTimer
  \/ \E r \in Runs :
       \/ RestartWaitDone(r)
       \/ F0WaitDone(r)
       \/ PausePoll(r)
       \/ AckPoll(r)
       \/ AckTimeout(r)
       \/ F2Poll(r)
       \/ F2Timeout(r)
       \/ SettleDone(r)
       \/ VerifyPoll(r)
       \/ VerifyTimeout(r)
       \/ Return(r)

\* The firmware update of part_000.
Spec == Init /\ [][Next]_vars

\* The firmware update of App.tsx (lines 223-265), which ends with the F2H write.
InitApp == InitUpdate /\ rev = "App"

NextApp ==
  \/ StartUpdate
  \/ TogglePause
  \/ Receive
  \/ Disconnect
  \/ SuccessTimer
  \/ \E r \in Runs :
       \/ RestartWaitDone(r)
       \/ F0WaitDone(r)
       \/ PausePoll(r)
       \/ AckPoll(r)
       \/ AckTimeout(r)
       \/ Return(r)

SpecApp == InitApp /\ [][NextApp]_vars

\* The state before a test cycle.
InitTest ==
  /\ masterBuffer = << >>
  /\ stopRequested = FALSE
  /\ updatePaused = FALSE
  /\ isUpdating = FALSE
  /\ isConnected = TRUE
  /\ portWritable = TRUE
  /\ updateProgress = 0
  /\ selectedFileLen = 0
  /\ fileVersion = << >>
  /\ nRuns = 0
  /\ resetTimers = 0
  /\ run = [r \in Runs |-> IdleRun]
  /\ test = IdleTest
  /\ InitStress
  /\ built = NoCall

\* One test cycle at a time, of either revision, with whole response frames.
InitCycle == InitTest /\ rev \in {"App", "part_000"}

NextCycle ==
  \/ StartSingle
  \/ WriteDone
  \/ CyclePoll
  \/ CycleDeadline
  \/ ReceiveFrame
  \/ Disconnect

SpecCycle == InitCycle /\ [][NextCycle]_vars

\* The polling loop of a test cycle whose input arrives byte by byte, up to
\* MaxScanLen bytes: what the scanner and the loop make of arbitrary buffers.
\* No command byte of ScanBytes ends the cycle.
InitScan == InitTest /\ rev = "App"

NextScan ==
  \/ StartSingle
  \/ WriteDone
  \/ CyclePoll
  \/ ReceiveByte

SpecScan == InitScan /\ [][NextScan]_vars

\* A stress test of either revision: the loop of startTesting over cycles fed
\* with whole response frames, its stop button, and disconnectSerial.
NextStress ==
  \/ StartTesting
  \/ StopTesting
  \/ TestingTop
  \/ TestingRecorded
  \/ WriteDone
  \/ CyclePoll
  \/ CycleDeadline
  \/ ReceiveReply
  \/ Disconnect

SpecStress == InitCycle /\ [][NextStress]_vars

\* The three operations of App.tsx side by side on one port while the reader
\* is silent: the buttons that start them, the stop button, and each
\* operation's own steps.  With no response every wait runs out.
NextOps ==
  \/ StartUpdate
  \/ StartSingle
  \/ StartTesting
  \/ StopTesting
  \/ TestingTop
  \/ TestingRecorded
  \/ WriteDone
  \/ CyclePoll
  \/ CycleDeadline
  \/ SuccessTimer
  \/ \E r \in Runs :
       \/ F0WaitDone(r)
       \/ AckTimeout(r)
       \/ Return(r)

SpecOps == InitApp /\ [][NextOps]_vars

\* ------------------------------------------------------- scanner calls
\* A 63H response with two bytes of user memory, 14 bytes, and a 70H response.
R63(a, b, hi, lo) == << 8, 0, 11, 99, DeviceId, 0, 0, 0, 0, a, b, hi, lo, 0 >>
R70(hi, lo) == << 8, 0, 6, 112, DeviceId, 0, hi, lo, 0 >>

\* What a receive buffer is made of: bytes that start no frame, headers cut
\* off, a frame of length field 0, frames too short for the fields of their
\* command, a header that claims more than follows, and whole responses.
Pieces ==
  { << 0 >>, << 255 >>, << 8 >>, << 8, 0 >>, << 8, 0, 0 >>, << 8, 0, 9 >>, << 8, 0, 3 >>,
    << 8, 0, 1, 100 >>, << 8, 0, 1, 53 >>, << 8, 0, 1, 97 >>, << 8, 0, 2, 99, 1 >>,
    << 8, 0, 2, 241, 1 >>, << 8, 0, 2, 242, 1 >>, << 8, 0, 2, 240, 1 >>, << 8, 0, 2, 112, 1 >>,
    << 8, 0, 4, 100, 1, 0, 0 >>, << 8, 0, 4, 100, 1, 0, 1 >>, << 8, 0, 4, 100, 1, 0, 2 >>,
    << 8, 0, 1, 7 >>,
    Tag64(65), << 8, 0, 14, 100, DeviceId, 0, 0, 0, 0, 0, 0, 0, 5, 0, 1, 0, 0 >>,
    End64(0, 1), End64(2, 171), R61(67, 0, 1), << 8, 0, 4, 97, 1, 3, 0 >>,
    R63(170, 187, 0, 1), R70(0, 1), V35Response(<< 118, 49 >>),
    F0Response, F1Response(1, 0, 1), F2Response(0, 1) }

\* The buffers of at most k pieces.
RECURSIVE Joined(_)
Joined(k) ==
  IF k = 0 THEN { << >> }
  ELSE { << >> } \cup { b \o piece : b \in Joined(k - 1), piece \in Pieces }

\* Lines 231-236: a whole frame lies at cursor i.
FrameAt(buffer, i) ==
  /\ At(buffer, i) = 8 /\ i + 3 <= Len(buffer)
  /\ i + (At(buffer, i + 1) * 256 + At(buffer, i + 2)) + 3 <= Len(buffer)

\* Fault variant of Advance: behind a frame the cursor moves by the length field.
Advance_ByLengthField(buffer, i) ==
  IF FrameAt(buffer, i) THEN At(buffer, i + 1) * 256 + At(buffer, i + 2) ELSE 1

\* Lines 307 and 312: i += packet.length behind a frame, i++ otherwise.
Advance(buffer, i) ==
  IF FrameAt(buffer, i) THEN (At(buffer, i + 1) * 256 + At(buffer, i + 2)) + 3 ELSE 1

\* The values of the cursor i at the top of the loop of line 230, for at most
\* turns iterations.
RECURSIVE CursorsFrom(_, _, _)
CursorsFrom(buffer, i, turns) ==
  IF i >= Len(buffer) \/ turns = 0 THEN << >>
  ELSE << i >> \o CursorsFrom(buffer, i + Advance(buffer, i), turns - 1)

\* One call of scanAllPackets on a buffer, with the cursor values of its loop.
CallScan ==
  /\ built = NoCall
  /\ \E buffer \in Joined(MaxPieces) :
       built' = [fn |-> "scan", args |-> [buffer |-> buffer],
                 threw |-> FALSE, frame |-> << >>,
                 packets |-> scanAllPackets(buffer, "64H"),
                 cursors |-> CursorsFrom(buffer, 0, Len(buffer) + 1)]
  /\ UNCHANGED AllButBuilt

\* A frame of build35HRequest, build61HRequest or build63HRequest handed to
\* scanAllPackets with the start byte of a response (0x08) in place of 0x80.
AsResponse(frame) == << 8 >> \o Tail(frame)

Decoded(cmd, args, frame) ==
  [fn |-> "roundtrip", cmd |-> cmd, args |-> args, threw |-> FALSE, frame |-> frame,
   packets |-> scanAllPackets(AsResponse(frame), cmd)]

RoundTrip ==
  /\ built = NoCall
  /\ \E id \in Ids, antenna \in Antennas, addrHex \in AddrTexts, lenWord \in LenWords :
       built' \in { Decoded("35H", [id |-> id], build35HRequest(id)),
                    Decoded("61H", [id |-> id, antenna |-> antenna],
                            build61HRequest(id, antenna)),
                    Decoded("63H", [id |-> id, antenna |-> antenna, addrHex |-> addrHex,
                                    lenWord |-> lenWord],
                            build63HRequest(id, antenna, addrHex, lenWord)) }
  /\ UNCHANGED AllButBuilt

\* The frame builders of protocol.ts and the page cut of runFirmwareUpdate:
\* one call, with arguments drawn from the sets of the builder calls.
NextBuild ==
  \/ Call64H
  \/ Call61H
  \/ Call63H
  \/ Call35H
  \/ CallF0H
  \/ CallF1H
  \/ CallF2H
  \/ Call70H
  \/ BuildPages
  \/ CallScan
  \/ RoundTrip

SpecBuild == InitScan /\ [][NextBuild]_vars

\* An update of part_000 and a single cycle while the reader is silent and the
\* user only starts, pauses and restarts: every timer of the code fires, so
\* each sleep ends and each wait that has a deadline runs out.
NextQuiet ==
  \/ StartUpdate
  \/ TogglePause
  \/ StartSingle
  \/ WriteDone
  \/ WriteFails
  \/ CycleDeadline
  \/ \E r \in Runs :
       \/ RestartWaitDone(r)
       \/ F0WaitDone(r)
       \/ PausePoll(r)
       \/ AckTimeout(r)
       \/ F2Timeout(r)
       \/ Return(r)

TimersFire ==
  /\ WF_vars(WriteDone)
  /\ WF_vars(CycleDeadline)
  /\ \A r \in Runs :
       /\ WF_vars(RestartWaitDone(r))
       /\ WF_vars(F0WaitDone(r))
       /\ WF_vars(PausePoll(r))
       /\ WF_vars(AckTimeout(r))
       /\ WF_vars(F2Timeout(r))
       /\ WF_vars(Return(r))

SpecQuiet == Init /\ [][NextQuiet]_vars /\ TimersFire

\* ================================================================ claims
\* ---------------------------------------------------------------- C1
\* C1: in every update call the frames handed to the transport are one F0H
\* first, then F1H for pages 1, 2, ... in steps of one, then one F2H, then 35H
\* requests only; a page after the first is written only when the page before
\* it is confirmed, and F2H only when every page is confirmed.
C1_FrameOrder ==
  \A r \in Runs :
    LET tx == run[r].tx
    IN  \A j \in 1..Len(tx) :
          /\ (tx[j][1] = "F0H") <=> (j = 1)
          /\ tx[j][1] = "F1H" =>
               /\ tx[j - 1][1] \in {"F0H", "F1H"}
               /\ tx[j][2] = (IF tx[j - 1][1] = "F1H" THEN tx[j - 1][2] + 1 ELSE 1)
               /\ tx[j][2] <= run[r].totalP
               /\ run[r].confirmedPages >= tx[j][2] - 1
          /\ tx[j][1] = "F2H" =>
               /\ tx[j - 1][1] \in {"F0H", "F1H"}
               /\ run[r].confirmedPages = run[r].totalP
          /\ tx[j][1] = "35H" => tx[j - 1][1] \in {"F2H", "35H"}

\* A call of two pages that wrote every kind of frame and succeeded.
C1_Witness ==
  \E r \in Runs :
    /\ run[r].pc = "success"
    /\ run[r].tx = << << "F0H", 0 >>, << "F1H", 1 >>, << "F1H", 2 >>, << "F2H", 0 >>,
                      << "35H", 0 >>, << "35H", 0 >> >>

\* ---------------------------------------------------------------- C2
\* C2: while page i awaits its acknowledgment, the scan of the buffer confirms
\* the page exactly when the buffer holds an F1H response that echoes page i or
\* i - 1 with error code '0001', whatever else the buffer holds.
C2_AckTolerance ==
  \A r \in Runs :
    run[r].pc = "ackwait" =>
      LET pkts == scanAllPackets(masterBuffer, "F1")
          i == run[r].i
      IN  PageConfirmed(masterBuffer, i)
            <=> \E k \in 1..Len(pkts) :
                  /\ pkts[k].cmd = 241
                  /\ pkts[k].currentPacketNum \in {i, i - 1}
                  /\ pkts[k].errorCode = OK0001

\* ---------------------------------------------------------------- C3
\* The frames that signal completion: a 35H or 70H response, a 61H or 63H
\* response that carries an error code, a 64H response with status 1.
\* part_000 knows no 70H and no 63H response.
IsCompletion(p) ==
  \/ p.cmd = 53
  \/ p.cmd = 112 /\ rev = "App"
  \/ p.cmd = 97 /\ p.errorCode # NA
  \/ p.cmd = 99 /\ rev = "App" /\ p.errorCode # NA
  \/ p.cmd = 100 /\ p.status = 1

\* C3: a cycle that has returned reports exactly one of Success, Failure and
\* Timeout: Success exactly when a completion frame was processed and the
\* error code of the last one is '0001' or '0000', Failure exactly when a
\* completion frame was processed and that code is anything else.  A cycle
\* still polling has reported nothing.
C3_OutcomeClassification ==
  LET done == SelectSeq(test.processedLog, IsCompletion)
      code == IF done = << >> THEN NA ELSE done[Len(done)].errorCode
  IN  /\ test.pc = "polling" => test.status = "none"
      /\ test.pc = "done" =>
           /\ test.status \in {"Success", "Failure", "Timeout"}
           /\ test.status = "Success" <=> (done # << >> /\ code \in {OK0001, OK0000})
           /\ test.status = "Failure" <=> (done # << >> /\ code \notin {OK0001, OK0000})
           /\ test.finalErrorCode = code

\* A cycle ended in Failure on a batch-finished frame with code '0002' after
\* a tag frame.
C3_Witness ==
  /\ test.pc = "done" /\ test.status = "Failure"
  /\ Len(test.processedLog) = 2
  /\ test.finalErrorCode = << 48, 48, 48, 50 >>

\* ---------------------------------------------------------------- C4
Is64Status(p, st) == p.cmd = 100 /\ p.status = st

\* C4: when the buffer the polling loop last scanned holds a 64H response with
\* status 1, the cycle has ended on that scan, whatever precedes the frame;
\* while only 64H frames with status 0 have been processed the cycle is not
\* finished, and the EPC of each of them is in the tag list.
C4_BatchFinished ==
  LET pkts == scanAllPackets(test.scannedBuf, test.commandType)
  IN  /\ (\E k \in 1..Len(pkts) : Is64Status(pkts[k], 1))
           => test.pc = "done" /\ test.isFinished
      /\ (\A k \in 1..Len(test.processedLog) : Is64Status(test.processedLog[k], 0))
           => /\ ~test.isFinished
              /\ \A k \in 1..Len(test.processedLog) :
                   InSeq(test.processedLog[k].epc, test.epcList)

\* Two tag frames and the batch-finished frame were seen by one scan, which
\* ended the cycle with both tags listed.
C4_Witness ==
  /\ test.pc = "done" /\ test.isFinished
  /\ test.scannedBuf = Tag64(65) \o Tag64(66) \o End64(0, 1)
  /\ Len(test.epcList) = 2
  /\ test.status = "Success"

\* ---------------------------------------------------------------- C5
\* The length field of the frame that starts at offset p.
LengthField(buffer, p) == At(buffer, p + 1) * 256 + At(buffer, p + 2)

\* The buffer ends inside the frame that starts at offset p.
EndsInside(buffer, p) ==
  /\ At(buffer, p) = 8
  /\ p + 3 <= Len(buffer)
  /\ p + LengthField(buffer, p) + 3 > Len(buffer)

ReportedAt(buffer, p) ==
  \E k \in 1..Len(scanAllPackets(buffer, "64H")) : scanAllPackets(buffer, "64H")[k].at = p

\* The number of bytes a raw string spells: two digits a byte, one space between.
RawBytes(raw) == (Len(raw) + 1) \div 3

\* Of the frame cut off at offset p of buffer: no packet then, and a packet of
\* length field + 3 bytes once `later` holds all of it.
DeferredUntilWhole(buffer, later, p) ==
  /\ ~ReportedAt(buffer, p)
  /\ p + LengthField(buffer, p) + 3 <= Len(later) =>
       \E k \in 1..Len(scanAllPackets(later, "64H")) :
         /\ scanAllPackets(later, "64H")[k].at = p
         /\ RawBytes(scanAllPackets(later, "64H")[k].raw) = LengthField(buffer, p) + 3

\* C5 as the specification states it: for every 0x08 byte of the scanned
\* buffer whose length field + 3 exceeds the bytes from it, the scan reported
\* no packet there, and a scan of the buffer grown to hold length field + 3
\* bytes from it reports a packet of that many bytes there.
C5_TruncatedFrame ==
  test.pc = "polling" =>
    \A p \in 0..(Len(test.scannedBuf) - 1) :
      EndsInside(test.scannedBuf, p) => DeferredUntilWhole(test.scannedBuf, masterBuffer, p)

\* The offset of the first start byte at which the scan finds the buffer too
\* short for the frame; Undefined when there is none.
RECURSIVE FirstCutOff(_, _)
FirstCutOff(buffer, i) ==
  IF i >= Len(buffer) THEN Undefined
  ELSE IF At(buffer, i) # 8 THEN FirstCutOff(buffer, i + 1)
  ELSE IF i + 3 <= Len(buffer) /\ i + LengthField(buffer, i) + 3 <= Len(buffer)
    THEN FirstCutOff(buffer, i + LengthField(buffer, i) + 3)
  ELSE i

\* C5, amended: for the first frame the scan finds cut off by the end of the
\* buffer (with its length field in the buffer), the scan reported no packet,
\* and a scan of the buffer grown to hold length field + 3 bytes from its start
\* reports it with exactly that many bytes.
C5_FirstTruncatedFrame ==
  test.pc = "polling" =>
    LET p == FirstCutOff(test.scannedBuf, 0)
    IN  p # Undefined /\ EndsInside(test.scannedBuf, p)
          => DeferredUntilWhole(test.scannedBuf, masterBuffer, p)

\* A scan met a frame cut off after its header, and the buffer has since grown
\* to hold the frame.
C5_Witness ==
  /\ test.pc = "polling"
  /\ test.scannedBuf = << 8, 0, 4, 8, 0, 1 >>
  /\ masterBuffer = << 8, 0, 4, 8, 0, 1, 1 >>

\* ---------------------------------------------------------------- C6
\* C6: over all the scans the polling loop makes of the growing buffer, no
\* two of the packets it has processed have the same raw string; so a frame
\* that an earlier scan processed is not processed again by a later scan.
C6_NoReprocessing ==
  \A j, k \in 1..Len(test.processedLog) :
    j # k => test.processedLog[j].raw # test.processedLog[k].raw

\* A later scan of the grown buffer met a frame again that an earlier scan had
\* processed, and processed the new frame behind it.
C6_Witness ==
  /\ test.pc = "polling" /\ test.dedupeHit
  /\ test.scannedBuf = << 8, 0, 0, 8, 0, 1, 0 >>
  /\ Len(test.processedLog) = 2

\* ---------------------------------------------------------------- C7
\* C7: a call that saw the stop flag raised hands no further frame to the
\* transport, whatever happens to the flag afterwards.
C7_NoWriteAfterCancel ==
  [][ \A r \in Runs : run[r].cancelSeen => Len(run'[r].tx) <= Len(run[r].tx) ]_vars

\* ---------------------------------------------------------------- C8
\* C8: a call that saw the stop flag raised ends aborted, never in success and
\* never in failure.
C8_CancelledEndsAborted ==
  \A r \in Runs : run[r].cancelSeen /\ run[r].pc \in Ended => run[r].pc = "aborted"

\* ---------------------------------------------------------------- C9
\* What a call whose acknowledgment wait of page i ran out has written: F0H
\* and the pages up to i, each once; no F2H and no 35H.
NothingAfterPage(rec) ==
  \A j \in 1..Len(rec.tx) :
    /\ rec.tx[j][1] \in {"F0H", "F1H"}
    /\ rec.tx[j][1] = "F1H" =>
         /\ rec.tx[j][2] <= rec.i
         /\ \A k \in 1..Len(rec.tx) : rec.tx[k] = rec.tx[j] => k = j

\* C9 as the specification states it: a call whose acknowledgment wait ran out
\* has ended in failure and wrote nothing after the page.
C9_AckExpiryFails ==
  \A r \in Runs :
    run[r].ackExpired => run[r].pc = "failed" /\ NothingAfterPage(run[r])

\* C9, amended: a call whose acknowledgment wait of page i ran out has ended,
\* in failure with the time-out of page i as its reason when the stop flag is
\* down, aborted when the stop flag is up; either way it did not write the
\* page again and wrote no F2H and no 35H.
C9_AckExpiryEnds ==
  \A r \in Runs :
    run[r].ackExpired =>
      /\ run[r].pc = (IF stopRequested THEN "aborted" ELSE "failed")
      /\ run[r].pc = "failed" => run[r].error = Failure("pageTimeout", << run[r].i >>, << >>)
      /\ run[r].confirmedPages = run[r].i - 1
      /\ NothingAfterPage(run[r])

\* The wait of page 2 ran out after page 1 was confirmed, and the call failed.
C9_Witness ==
  \E r \in Runs :
    /\ run[r].ackExpired /\ run[r].pc = "failed" /\ run[r].i = 2
    /\ run[r].tx = << << "F0H", 0 >>, << "F1H", 1 >>, << "F1H", 2 >> >>

\* ---------------------------------------------------------------- C10
\* C10: a call goes past F2H, and reports success, only after it saw an F2H
\* response with error code '0001'; a response with another code ends it in
\* failure with that code, and no response ends it in failure.
C10_F2Handshake ==
  \A r \in Runs :
    /\ run[r].pc \in {"settle", "verify", "success"} => run[r].f2Confirmed
    /\ run[r].error.kind = "f2" => run[r].pc = "failed" /\ run[r].error.a # OK0001
    /\ run[r].error.kind = "f2NoReply" => run[r].pc = "failed" /\ ~run[r].f2Confirmed

\* ---------------------------------------------------------------- C11
\* The 35H requests among the frames a call wrote.
Count35(tx) == Len(SelectSeq(tx, LAMBDA f : f[1] = "35H"))

\* C11 as the specification states it: a call writes at most three 35H
\* requests; once a scan of the verification wait found a 35H response with a
\* non-empty version string the call has ended, so it writes no 35H after it;
\* a call whose attempts are used up without one has ended in failure.
C11_VerifyAttempts ==
  \A r \in Runs :
    /\ Count35(run[r].tx) <= VerifyAttempts
    /\ run[r].versionSeen => run[r].pc \in Ended
    /\ run[r].attempt > VerifyAttempts /\ ~run[r].versionSeen =>
         run[r].pc = "failed" /\ run[r].error.kind = "noVersion"

\* C11, amended: the version string counts once white space is trimmed from
\* it.  A call writes at most three 35H requests; once a scan found a 35H
\* response whose trimmed version string is not empty the call has ended, in
\* success or in the failure of the version comparison; a call whose attempts
\* are used up has ended in the failure of the verification, and only a call
\* that obtained no such string ends that way.
C11_VerifyAttemptsTrimmed ==
  \A r \in Runs :
    /\ Count35(run[r].tx) <= VerifyAttempts
    /\ run[r].attempt <= VerifyAttempts + 1
    /\ run[r].verifiedVersion # << >> =>
         /\ run[r].versionSeen
         /\ run[r].pc \in {"success", "failed"}
         /\ run[r].pc = "failed" => run[r].error.kind = "versionMismatch"
    /\ run[r].attempt > VerifyAttempts =>
         run[r].pc = "failed" /\ run[r].error.kind = "noVersion"
    /\ run[r].error.kind = "noVersion" =>
         run[r].pc = "failed" /\ run[r].verifiedVersion = << >>

\* Three requests were written, the third after a response whose version is
\* blank, and the call ended in the failure of the verification.
C11_Witness ==
  \E r \in Runs :
    /\ run[r].pc = "failed" /\ run[r].error.kind = "noVersion"
    /\ Count35(run[r].tx) = VerifyAttempts
    /\ run[r].versionSeen
    /\ run[r].attempt = VerifyAttempts + 1

\* ---------------------------------------------------------------- C12
\* A version string without one leading prefix character, 'V' or 'v'.
Unprefixed(s) == IF s # << >> /\ Head(s) \in {86, 118} THEN Tail(s) ELSE s

\* Two strings of one length that differ at most in the case of letters.
SameIgnoringCase(s, t) ==
  /\ Len(s) = Len(t)
  /\ \A k \in 1..Len(s) :
       \/ s[k] = t[k]
       \/ s[k] \in 65..90 /\ t[k] = s[k] + 32
       \/ s[k] \in 97..122 /\ t[k] = s[k] - 32

VersionsAgree(expected, observed) ==
  SameIgnoringCase(Unprefixed(expected), Unprefixed(observed))

\* C12: a call that obtained a version string has ended: in the failure of the
\* version comparison, reporting the expected and the observed string, exactly
\* when an expected version is supplied and the two differ after one leading
\* 'V' is removed from each and case is ignored; in success otherwise, that is
\* when they agree or no expected version is supplied.  No call ends in
\* success or in that failure without a version string.
C12_VersionCompare ==
  \A r \in Runs :
    LET rec == run[r]
        differ == fileVersion # << >> /\ ~VersionsAgree(fileVersion, rec.verifiedVersion)
    IN  /\ rec.verifiedVersion # << >> =>
             /\ rec.pc = (IF differ THEN "failed" ELSE "success")
             /\ differ => rec.error = Failure("versionMismatch", fileVersion, rec.verifiedVersion)
        /\ rec.pc = "success" \/ rec.error.kind = "versionMismatch" =>
             rec.verifiedVersion # << >>

\* The file says "V2" and the reader "2": the call succeeded.
C12_Witness ==
  \E r \in Runs :
    /\ run[r].pc = "success"
    /\ fileVersion = << 86, 50 >>
    /\ run[r].verifiedVersion = << 50 >>

\* ---------------------------------------------------------------- C13
\* The successes among the statuses runSingleTest returned.
Successes(outcomes) == Len(SelectSeq(outcomes, LAMBDA x : x = "Success"))

\* C13: a stress test without stopOnError whose stop flag was never raised has,
\* when it ends, started exactly totalCycles cycles and got a result from each,
\* whatever the results are; the counts shown are the successes among these
\* results over their number.
C13_AllCyclesCounted ==
  stress.pc = "ended" /\ ~stress.stopOnError /\ ~stress.cancelled =>
    /\ stress.started = stress.totalCycles
    /\ Len(stress.outcomes) = stress.totalCycles
    /\ TotalCount = stress.totalCycles
    /\ SuccessCount = Successes(stress.outcomes)

\* Three cycles ran, the second timed out, and 2/3 is shown.
C13_Witness ==
  /\ stress.pc = "ended" /\ ~stress.stopOnError /\ ~stress.cancelled
  /\ stress.outcomes = << "Success", "Timeout", "Success" >>
  /\ SuccessCount = 2 /\ TotalCount = 3

\* ---------------------------------------------------------------- C14
\* C14: in a stress test with stopOnError, a result that is not a success is
\* the last one: the test has ended, no cycle was started after the cycle that
\* gave it, and it is the newest entry of the history and counted in the total.
C14_StopOnError ==
  stress.stopOnError =>
    \A k \in 1..Len(stress.outcomes) :
      stress.outcomes[k] # "Success" =>
        /\ k = Len(stress.outcomes)
        /\ stress.pc = "ended"
        /\ stress.started = k
        /\ results # << >> /\ Head(results) = stress.outcomes[k]
        /\ TotalCount = k

\* A stress test of three cycles with stopOnError ended on the failure of its
\* second cycle.
C14_Witness ==
  /\ stress.stopOnError /\ stress.pc = "ended" /\ stress.totalCycles = 3
  /\ stress.outcomes = << "Success", "Failure" >>
  /\ stress.started = 2 /\ TotalCount = 2

\* ---------------------------------------------------------------- C15
\* C15: once the stop flag was raised during a stress test, the test starts no
\* further cycle, so no further request is written.
C15_NoCycleAfterStop ==
  [][ stress.cancelled => stress'.started <= stress.started ]_vars

\* ---------------------------------------------------------------- C18
\* The operations that are under way: update calls, the single cycle of
\* handleSingleTest, the stress test.
UpdatesActive == Cardinality({ r \in Runs : run[r].pc \in Active })
SingleActive == IF test.pc \in {"writing", "polling"} /\ test.cycle = 0 THEN 1 ELSE 0
StressActive == IF stress.pc \in {"top", "cycle"} THEN 1 ELSE 0

\* C18: at most one operation is under way at any time.
C18_SingleFlight == UpdatesActive + SingleActive + StressActive <= 1

\* ---------------------------------------------------------------- C16
\* C16: a cycle reports Timeout only when its deadline passed and no
\* completion frame was seen, also when the stop flag was raised before.
C16_TimeoutOnlyAtDeadline ==
  test.pc = "done" /\ test.status = "Timeout" => test.deadlinePassed /\ ~test.isFinished

\* ---------------------------------------------------------------- C17
\* The command byte of the responses to a request.
CommandByte(cmd) == IF cmd = "35H" THEN 53 ELSE 100

\* C17: the error code, the tag list, whether the cycle is finished and the
\* status it reports are what the processed frames of the awaited command
\* alone give; frames of another command change none of them.
C17_ForeignFramesIgnored ==
  LET own == SelectSeq(test.processedLog, LAMBDA p : p.cmd = CommandByte(test.commandType))
      st == ProcessAll(IdleTest, own)
  IN  test.pc \in {"polling", "done"} =>
        /\ test.isFinished = st.isFinished
        /\ test.finalErrorCode = st.finalErrorCode
        /\ test.epcList = st.epcList
        /\ test.pc = "done" => test.status = Conclude(st).status

\* ---------------------------------------------------------------- C19
\* C19: no frame a cycle processes lies in the bytes that were in the buffer
\* before the cycle's request was written.
C19_NoStaleBytes ==
  \A k \in 1..Len(test.processedLog) : test.processedLog[k].at >= test.staleLen

\* ---------------------------------------------------------------- C20
\* C20: from the moment a restart is requested, the call it replaces hands no
\* further frame to the transport, so the frames of two calls are never
\* interleaved; the new call writes F0H first and page 1 after it.
C20_RestartNoInterleaving ==
  [][ \A r, q \in Runs :
        /\ r < q /\ run[r].pc # "idle" /\ run[q].pc # "idle" =>
             Len(run'[r].tx) <= Len(run[r].tx)
        /\ Len(run'[q].tx) >= 1 => run'[q].tx[1] = << "F0H", 0 >>
        /\ Len(run'[q].tx) >= 2 => run'[q].tx[2] \in { << "F1H", 1 >>, << "F2H", 0 >> } ]_vars

\* ---------------------------------------------------------------- C21
\* C21: every cycle that was started returns a result and every update call
\* that was started ends, with no response from the reader and whatever the
\* pause flag is.
C21_AllWaitsBounded ==
  /\ (test.pc \in {"writing", "polling"}) ~> (test.pc = "done")
  /\ \A r \in Runs : (run[r].pc \in Active) ~> (run[r].pc \in Ended)

\* C22: once the write of a cycle's request has failed, the cycle does not poll
\* for a response and its result is not Timeout.
C22_WriteFailureFatal ==
  test.writeFailed => test.pc # "polling" /\ test.status # "Timeout"

\* ---------------------------------------------------------------- C23
Builders == {"64H", "61H", "63H", "35H", "70H", "F0H", "F1H", "F2H"}

\* Bit b of a byte.
Bit(x, b) == (x \div (2 ^ b)) % 2

\* The last byte of a frame is the XOR of the bytes before it: bit by bit, it
\* is set exactly when an odd number of them have the bit set.
ChecksumCloses(frame) ==
  /\ Len(frame) >= 1
  /\ \A b \in 0..7 :
       Bit(frame[Len(frame)], b)
         = Cardinality({ k \in 1..(Len(frame) - 1) : Bit(frame[k], b) = 1 }) % 2

\* C23: the last byte of every frame a builder returns is the XOR of all the
\* bytes before it.
C23_ChecksumIsXor ==
  built.fn \in Builders /\ ~built.threw => ChecksumCloses(built.frame)

\* build70HRequest has returned the frame of the data text "AB": 26 bytes
\* that end in a checksum which is not 0.
C23_Witness ==
  /\ built.fn = "70H" /\ built.args.dataHex = Once(<< 65, 66 >>)
  /\ Len(built.frame) = 26 /\ built.frame[26] # 0
  /\ ChecksumCloses(built.frame)

\* ---------------------------------------------------------------- C24
\* The big-endian 16-bit number in bytes 1..2 of a frame.
LenField(frame) == 256 * At(frame, 1) + At(frame, 2)

\* C24: every frame a builder returns starts with 0x80, and its length field
\* is the number of bytes from the command byte through the checksum, the
\* length of the frame less 3.
C24_SofAndLength ==
  built.fn \in Builders /\ ~built.threw =>
    /\ At(built.frame, 0) = 128
    /\ LenField(built.frame) = Len(built.frame) - 3

\* ---------------------------------------------------------------- C25
\* build_64H(id=1, antenna=0, power=33, timeout=3000, maxRecords=10) and the
\* frame the specification gives for it, with the XOR of its 16 bytes, 0x73.
ExampleArgs ==
  [id |-> 1, antenna |-> 0, power |-> 33, timeoutMs |-> 3000, maxRecords |-> 10]
ExampleFrame ==
  << 128, 0, 14, 100, 1, 0, 0, 33, 0, 0, 11, 184, 0, 0, 0, 10, 115 >>

\* The n bytes of a number from 0 on, most significant byte first.
BigEndian(x, n) == [k \in 1..n |-> (x \div (256 ^ (n - k))) % 256]

\* C25: build64HRequest returns 17 bytes with the power big-endian in bytes
\* 6..7, the timeout big-endian in bytes 8..11 and a positive record count
\* big-endian in bytes 12..15; for the example arguments it returns the example
\* frame.
C25_Example64H ==
  built.fn = "64H" =>
    /\ Len(built.frame) = 17
    /\ SubSeq(built.frame, 7, 8) = BigEndian(built.args.power, 2)
    /\ SubSeq(built.frame, 9, 12) = BigEndian(built.args.timeoutMs, 4)
    /\ built.args.maxRecords > 0 =>
         SubSeq(built.frame, 13, 16) = BigEndian(built.args.maxRecords, 4)
    /\ built.args = ExampleArgs => built.frame = ExampleFrame

C25_Witness == built.fn = "64H" /\ built.args = ExampleArgs /\ built.frame = ExampleFrame

SpellsBytes(text) ==
  LET hex == StripSpaces(text)
  IN  Len(hex) % 2 = 0 /\ \A k \in 1..Len(hex) : IsHexDigit(hex[k])
Payload(text) ==
  LET hex == StripSpaces(text)
  IN  [k \in 1..(Len(hex) \div 2) |-> 16 * DigitVal(hex[2 * k - 1]) + DigitVal(hex[2 * k])]

\* C27: for a data text that spells n bytes, the frame of build70HRequest has
\* the length field 22 + n and 3 bytes more than the field says, and the n
\* bytes stand at offsets 24..24+n-1, directly before the checksum.
C27_WriteFrameLength ==
  built.fn = "70H" /\ SpellsBytes(Text(built.args.dataHex)) =>
    LET payload == Payload(Text(built.args.dataHex))
        n == Len(payload)
    IN  /\ LenField(built.frame) = 22 + n
        /\ Len(built.frame) = LenField(built.frame) + 3
        /\ \A k \in 1..n : At(built.frame, 23 + k) = payload[k]

\* ---------------------------------------------------------------- C28
\* Byte k (from 1) of page i of an image: the image byte when there is one, 0
\* behind the end of the image.
PageByte(fileData, i, k) ==
  IF (i - 1) * 512 + k <= Len(fileData) THEN fileData[(i - 1) * 512 + k] ELSE 0

\* C28: every F1H frame an update builds has 520 bytes: 80 02 05 F1, the
\* device id, the page number big-endian in bytes 5..6, the 512 bytes of the
\* page, padded with zeros, in bytes 7..518, and the checksum in byte 519.
C28_PageFrame ==
  built.fn = "pages" =>
    /\ ~built.threw
    /\ \A i \in 1..Len(built.frames) :
         LET f == built.frames[i]
         IN  /\ Len(f) = 520
             /\ SubSeq(f, 1, 4) = << 128, 2, 5, 241 >>
             /\ At(f, 4) = DeviceId
             /\ SubSeq(f, 6, 7) = BigEndian(i, 2)
             /\ \A k \in 1..512 : At(f, 6 + k) = PageByte(built.args.fileData, i, k)
             /\ ChecksumCloses(f)

\* The third frame of an image of 1025 bytes: one image byte, then zeros.
C28_Witness ==
  /\ built.fn = "pages" /\ Len(built.args.fileData) = 1025 /\ Len(built.frames) = 3
  /\ Len(built.frames[3]) = 520
  /\ At(built.frames[3], 7) = built.args.fileData[1025] /\ At(built.frames[3], 7) # 0
  /\ \A k \in 8..518 : At(built.frames[3], k) = 0

\* ---------------------------------------------------------------- C29
\* C29: an image of L bytes is cut into ceil(L/512) pages of 512 bytes; page i
\* holds the image bytes (i-1)*512 .. min(i*512, L) and zeros behind them, so
\* that the pages in order, cut off at L, are the image.
C29_Paging ==
  built.fn = "pages" =>
    LET fileData == built.args.fileData
        L == Len(fileData)
    IN  /\ built.totalP * 512 >= L /\ (built.totalP - 1) * 512 < L
        /\ Len(built.chunks) = built.totalP
        /\ \A i \in 1..built.totalP :
             /\ Len(built.chunks[i]) = 512
             /\ \A k \in 1..512 : built.chunks[i][k] = PageByte(fileData, i, k)
        /\ [k \in 1..L |-> built.chunks[((k - 1) \div 512) + 1][((k - 1) % 512) + 1]]
             = fileData

\* An image of 1025 bytes: 3 pages, the third of 1 image byte and 511 zeros.
C29_Witness ==
  /\ built.fn = "pages" /\ Len(built.args.fileData) = 1025 /\ built.totalP = 3
  /\ built.chunks[3][1] = built.args.fileData[1025] /\ built.chunks[3][1] # 0
  /\ \A k \in 2..512 : built.chunks[3][k] = 0

\* ---------------------------------------------------------------- C30
\* C30: no call of a builder ends with an error.
C30_BuildersNeverFail == ~built.threw

\* ---------------------------------------------------------------- C31
StrictlyIncreasing(seq) == \A k \in 1..(Len(seq) - 1) : seq[k] < seq[k + 1]

\* C31: scanAllPackets returns for every buffer: its cursor moves forward in
\* every iteration, the loop is left after at most one iteration a byte, and
\* the packets returned are those of the cursor positions where a whole frame
\* lies.
C31_ScanTerminates ==
  built.fn = "scan" =>
    LET buffer == built.args.buffer
        cursors == built.cursors
    IN  /\ StrictlyIncreasing(cursors)
        /\ Len(cursors) <= Len(buffer)
        /\ cursors # << >> =>
             cursors[Len(cursors)] + Advance(buffer, cursors[Len(cursors)]) >= Len(buffer)
        /\ [k \in 1..Len(built.packets) |-> built.packets[k].at]
             = SelectSeq(cursors, LAMBDA i : FrameAt(buffer, i))

\* A buffer that ends in a header cut off behind a frame of length field 0: the
\* scan has gone through it in three iterations and returned the one frame.
C31_Witness ==
  /\ built.fn = "scan"
  /\ built.args.buffer = << 8, 0, 0, 8, 0 >>
  /\ Len(built.packets) = 1 /\ built.cursors = << 0, 3, 4 >>

\* ---------------------------------------------------------------- C32
\* The characters 0-9 and A-F.
UpperHex == (48..57) \cup (65..70)

\* C32: the errorCode of every packet scanAllPackets returns is 'N/A' or four
\* hexadecimal digits.
C32_ErrorCodeShape ==
  built.fn = "scan" =>
    \A k \in 1..Len(built.packets) :
      LET code == built.packets[k].errorCode
      IN  code = NA \/ (Len(code) = 4 /\ \A j \in 1..4 : code[j] \in UpperHex)

\* One scan has returned a packet with 'N/A' and a packet with the code 02AB.
C32_Witness ==
  /\ built.fn = "scan" /\ Len(built.packets) = 2
  /\ built.packets[1].errorCode = NA
  /\ built.packets[2].errorCode = << 48, 50, 65, 66 >>

\* ---------------------------------------------------------------- C33
\* C33: the message of a cycle's result and of an update that failed on the
\* F2H response is the message of the code when the code has one, and the code
\* itself when it has none.
Resolved(code) == IF code \in KnownCodes THEN Message(code) ELSE code

C33_ResolverDefault ==
  /\ test.pc = "done" /\ test.isFinished => test.errorMsg = Resolved(test.finalErrorCode)
  /\ \A r \in Runs :
       run[r].pc = "failed" /\ run[r].error.kind = "f2" =>
         run[r].error.b = Resolved(run[r].error.a)

\* ---------------------------------------------------------------- C34
\* The bytes a request carries between its id and its checksum.
EncodedPayload(frame) == SubSeq(frame, 6, Len(frame) - 1)

\* The decoded field that holds the payload of a command.
PayloadField(cmd, p) ==
  IF cmd = "61H" THEN p.epc ELSE IF cmd = "63H" THEN p.userData ELSE p.fwVersion

\* C34 as stated: the frame of a 35H, 61H or 63H request, read back by the
\* scanner, gives one packet with the command, the id and the payload fields
\* that were encoded.
C34_RoundTrip ==
  built.fn = "roundtrip" =>
    /\ Len(built.packets) = 1
    /\ built.packets[1].cmd = built.frame[4]
    /\ built.packets[1].id = built.args.id
    /\ PayloadField(built.cmd, built.packets[1])
         = IF built.cmd = "35H" THEN EncodedPayload(built.frame)
                                ELSE uint8ArrayToHex(EncodedPayload(built.frame))

\* C34: the frame of a 35H, 61H or 63H request, read back by the scanner,
\* gives exactly one packet; its cmd is the command byte, its id is the id
\* modulo 256 and its raw is the dump of all the bytes of the frame; no decoded
\* field holds the payload: epc, userData and fwVersion are empty and errorCode
\* is the dump of the two bytes before the checksum.
C34_RoundTripRaw ==
  built.fn = "roundtrip" =>
    LET f == built.frame
        p == built.packets[1]
    IN  /\ Len(built.packets) = 1
        /\ p.cmd = f[4]
        /\ p.cmd = (CASE built.cmd = "35H" -> 53 [] built.cmd = "61H" -> 97 [] OTHER -> 99)
        /\ p.id = built.args.id % 256
        /\ p.raw = uint8ArrayToHex(AsResponse(f))
        /\ p.epc = << >> /\ p.userData = << >> /\ p.fwVersion = << >>
        /\ p.errorCode = HexCode(SubSeq(f, Len(f) - 2, Len(f) - 1))

C34_Witness ==
  /\ built.fn = "roundtrip" /\ built.cmd = "63H"
  /\ built.args.id = 255 /\ built.args.antenna = 3
  /\ Len(built.packets) = 1
  /\ built.packets[1].id = 255 /\ built.packets[1].cmd = 99
  /\ Len(built.packets[1].raw) = 29

\* ---------------------------------------------------------------- C35
\* C35: when the scan reaches a 0x08 byte whose header or frame is not all in
\* the buffer, it stops: it reports no packet that starts at a later offset.
C35_StopsAtIncompleteFrame ==
  built.fn = "scan" =>
    LET buffer == built.args.buffer
    IN  \A k \in 1..Len(built.cursors) :
          LET i == built.cursors[k]
          IN  At(buffer, i) = 8 /\ ~FrameAt(buffer, i) =>
                \A j \in 1..Len(built.packets) : built.packets[j].at <= i

\* ---------------------------------------------------------------- C36
\* The len bytes of a frame from offset off on.
Bytes(frame, off, len) == SubSeq(frame, off + 1, off + len)

\* The frame a packet was sliced from.
FrameOf(buffer, p) == Bytes(buffer, p.at, LengthField(buffer, p.at) + 3)

C37_DisjointSlices ==
  built.fn = "scan" =>
    LET buffer == built.args.buffer
        ps == built.packets
        size(k) == RawBytes(ps[k].raw)
    IN  /\ \A k \in 1..Len(ps) :
              /\ ps[k].at >= 0 /\ ps[k].at + size(k) <= Len(buffer)
              /\ At(buffer, ps[k].at) = 8
              /\ size(k) = LengthField(buffer, ps[k].at) + 3
              /\ ps[k].raw = uint8ArrayToHex(Bytes(buffer, ps[k].at, size(k)))
        /\ \A k \in 1..(Len(ps) - 1) : ps[k].at + size(k) <= ps[k + 1].at

\* A frame whose data bytes spell a frame of their own: one packet, the outer
\* frame, and none for the bytes inside it.
C37_Witness ==
  /\ built.fn = "scan"
  /\ built.args.buffer = << 8, 0, 3, 8, 0, 0 >>
  /\ Len(built.packets) = 1 /\ built.packets[1].at = 0
  /\ RawBytes(built.packets[1].raw) = 6

\* ---------------------------------------------------------------- C38
\* The last byte of a frame is the XOR of the bytes before it.
ChecksumRight(frame) == frame[Len(frame)] = calculateXOR(SubSeq(frame, 1, Len(frame) - 1))

\* The frames of the buffer the polling loop scanned last.
Scanned == scanAllPackets(test.scannedBuf, test.commandType)

\* C38: no checksum is validated: every whole frame of the scanned buffer is
\* reported and processed, its last byte being the XOR of the bytes before it
\* or not, and a 64H batch-finished frame among them ends the cycle.
C38_NoChecksumValidation ==
  test.pc \in {"polling", "done"} =>
    \A k \in 1..Len(Scanned) :
      LET p == Scanned[k]
      IN  /\ p.raw \in test.processedRaw
          /\ p.cmd = 100 /\ p.status = 1 => test.pc = "done" /\ test.isFinished

\* A cycle completed with Success by one frame whose last byte is not its XOR.
C38_Witness ==
  /\ test.pc = "done" /\ test.status = "Success"
  /\ test.scannedBuf = End64(0, 1)
  /\ ~ChecksumRight(test.scannedBuf)
  /\ Len(test.processedLog) = 1

\* ---------------------------------------------------------------- C39
\* A completion frame: a packet that ends the wait of runSingleTest.
Completes(p) ==
  \/ p.cmd = 53
  \/ p.cmd = 100 /\ p.status = 1
  \/ p.cmd = 97 /\ p.errorCode # NA
  \/ rev = "App" /\ (p.cmd = 112 \/ (p.cmd = 99 /\ p.errorCode # NA))

\* The index of the last completion frame among pkts that is unprocessed when
\* the loop reaches it (no frame before it has the same bytes), 0 when there
\* is none.
LastCompletion(pkts) ==
  LET ks == { k \in 1..Len(pkts) :
                Completes(pkts[k]) /\ \A j \in 1..(k - 1) : pkts[j].raw # pkts[k].raw }
  IN  IF ks = { } THEN 0 ELSE CHOOSE k \in ks : \A j \in ks : j <= k

\* C39: the scan that ends the wait is processed to its last packet: every
\* frame of it is taken, the tags of the tag frames behind a completion frame
\* are listed, and the error code of the outcome is that of the last
\* unprocessed completion frame of the buffer, not of the first.
C39_LastCompletionWins ==
  test.pc = "done" /\ test.isFinished =>
    /\ LastCompletion(Scanned) > 0
    /\ test.finalErrorCode = Scanned[LastCompletion(Scanned)].errorCode
    /\ \A k \in 1..Len(Scanned) :
          /\ Scanned[k].raw \in test.processedRaw
          /\ Scanned[k].cmd = 100 /\ Scanned[k].status = 0 /\ Scanned[k].epc # << >>
               => InSeq(Scanned[k].epc, test.epcList)

\* Two completion frames and a tag frame behind them in one scan: the code of
\* the second completion frame is the outcome, and the tag is listed.
C39_Witness ==
  /\ test.pc = "done" /\ test.isFinished
  /\ test.scannedBuf = End64(0, 2) \o End64(0, 1) \o Tag64(65)
  /\ Len(test.processedLog) = 3
  /\ test.finalErrorCode = OK0001 /\ test.status = "Success"
  /\ test.epcList = << << 52, 49 >> >>

\* ---------------------------------------------------------------- C40
\* C40: with an empty image (0 bytes, 0 pages) a run writes F0H and then F2H
\* with no F1H frame between them or anywhere else, and the progress shown
\* stays 0.
C40_EmptyImage ==
  selectedFileLen = 0 =>
    /\ updateProgress = 0
    /\ \A r \in Runs :
          LET tx == run[r].tx
          IN  /\ run[r].totalP = 0 /\ run[r].confirmedPages = 0
              /\ \A k \in 1..Len(tx) : tx[k][1] # "F1H"
              /\ Len(tx) >= 1 => tx[1] = << "F0H", 0 >>
              /\ Len(tx) >= 2 => tx[2] = << "F2H", 0 >>
              /\ run[r].pc = "f2wait" /\ portWritable => tx = << << "F0H", 0 >>, << "F2H", 0 >> >>

\* A run on an empty image that has written F2H right after F0H and was
\* confirmed by the reader.
C40_Witness ==
  /\ selectedFileLen = 0 /\ updateProgress = 0
  /\ \E r \in Runs :
        /\ run[r].f2Confirmed
        /\ SubSeq(run[r].tx, 1, 2) = << << "F0H", 0 >>, << "F2H", 0 >> >>
====
